---- MODULE Spec2Model ----
(***************************************************************************)
(* Model of raiden's message layer (raiden/messages.py) and of the state   *)
(* machine substrate (raiden/transfer/architecture.py).                    *)
(*                                                                         *)
(* Part 1: StateManager.  Python objects live in a heap: a state object is *)
(* an object id, its value is heap[id], and None is the reference 0.  Two  *)
(* managers run the same transition function: the Live one dispatches any  *)
(* state change and logs it, the Recovered one starts from a snapshot copy *)
(* of the same start state and re-dispatches the log in order.             *)
(***************************************************************************)
EXTENDS Integers, Sequences, FiniteSets, TLC

VARIABLES heap, current_state, last, returned, wal, hist,
          msgs, senders_cache, signed_by, mlast, nops,
          hashes_cache, lock_bytes_cache, hobjs, hlast, hwritten, hevicted

smvars == <<heap, current_state, last, returned, wal, hist>>
msgvars == <<msgs, senders_cache, signed_by, mlast, nops>>
hashvars == <<hashes_cache, lock_bytes_cache, hobjs, hlast, hwritten, hevicted>>
vars == <<heap, current_state, last, returned, wal, hist,
          msgs, senders_cache, signed_by, mlast, nops,
          hashes_cache, lock_bytes_cache, hobjs, hlast, hwritten, hevicted>>

\* ------------------------------------------------------------- bounds
\* Number of dispatch calls on the Live manager.
MaxDispatch == 3
\* Largest value of the start state S0.
MaxInit == 1

\* --------------------------------------------------------- references
None == 0
NoneValue == -1
\* A module-level state object that state_transition may return as new_state.
SINGLETON == 1

Live == "Live"
Recovered == "Recovered"
Managers == {Live, Recovered}

\* The value of the object a reference points to (NoneValue for None).
Val(h, ref) == IF ref = None THEN NoneValue ELSE h[ref]

FreshId(h) == Cardinality(DOMAIN h) + 1

\* isinstance(x, State): every heap object of the model is a State, None is not.
IsState(ref) == ref # None

\* ------------------------------------------------- inputs of dispatch
StateChanges ==
  { "ActionIncInPlace", "ActionIncPure", "ActionNoop", "ActionReset",
    "ActionFinish", "ActionRaise", "ActionBadResult", "ActionBadEvent" }
NotAStateChange == "NotAStateChange"
DispatchInputs == StateChanges \cup {NotAStateChange}

\* isinstance(state_change, StateChange)
IsStateChange(sc) == sc \in StateChanges

Events == {"EventA", "EventB"}
NotAnEvent == "NotAnEvent"
\* isinstance(e, Event)
IsEvent(e) == e \in Events

\* State changes whose handler modifies the object it is given.
InPlaceChanges == {"ActionIncInPlace"}

\* copy.deepcopy: None copies to None, an object to a fresh object of equal value.
NoCopy(h, ref) == [heap |-> h, ref |-> ref]
deepcopy(h, ref) ==
  IF ref = None
    THEN [heap |-> h, ref |-> None]
    ELSE [heap |-> [i \in DOMAIN h \cup {FreshId(h)} |->
                      IF i = FreshId(h) THEN h[ref] ELSE h[i]],
          ref |-> FreshId(h)]

\* TransitionResult(new_state, events)
TransitionResult(h, new_state, evs) ==
  [kind |-> "TransitionResult", heap |-> h, new_state |-> new_state, events |-> evs]

\* A new state object holding value v.
Alloc(h, v) == [i \in DOMAIN h \cup {FreshId(h)} |-> IF i = FreshId(h) THEN v ELSE h[i]]

\* The transition function the managers are built with: a deterministic
\* function of the value of the state it is given and of the state change.
\* Its handlers cover the ways a transition function may treat its argument:
\* modify it and return it, build a new object, return it untouched, return a
\* shared module-level object, return None, raise, or return a malformed result.
state_transition(h, state, sc) ==
  CASE sc = "ActionIncInPlace" ->
         IF state = None
           THEN TransitionResult(Alloc(h, 0), FreshId(h), <<"EventA">>)
           ELSE TransitionResult([h EXCEPT ![state] = @ + 1], state, <<"EventA">>)
    [] sc = "ActionIncPure" ->
         TransitionResult(Alloc(h, Val(h, state) + 1), FreshId(h), <<"EventA", "EventB">>)
    [] sc = "ActionNoop" -> TransitionResult(h, state, <<>>)
    [] sc = "ActionReset" -> TransitionResult(h, SINGLETON, <<"EventB">>)
    [] sc = "ActionFinish" -> TransitionResult(h, None, <<"EventB", "EventA">>)
    [] sc = "ActionRaise" ->
         [kind |-> "raise", heap |-> h, new_state |-> None, events |-> <<>>]
    [] sc = "ActionBadResult" ->
         [kind |-> "NotATransitionResult", heap |-> h, new_state |-> state, events |-> <<>>]
    [] sc = "ActionBadEvent" ->
         TransitionResult(Alloc(h, Val(h, state) + 1), FreshId(h), <<"EventA", NotAnEvent>>)

\* self.current_state = iteration.new_state
NewCurrentState(next_state, iteration) == iteration.new_state

\* events = iteration.events
EventsReversed(iteration) ==
  [i \in 1..Len(iteration.events) |-> iteration.events[Len(iteration.events) + 1 - i]]
DispatchEvents(iteration) == iteration.events

\* return next_state, events
ReturnNewState(next_state, iteration) == iteration.new_state
ReturnedState(next_state, iteration) == next_state

\* The outcome of a call that raised: nothing is returned.
Raised(exc, h, cur, cp, it) ==
  [status |-> exc, heap |-> h, current_state |-> cur,
   ret_state |-> None, ret_events |-> <<>>, copy |-> cp,
   iter_kind |-> it.kind, iter_state |-> it.new_state, iter_events |-> it.events]

NoIteration == [kind |-> "none", new_state |-> None, events |-> <<>>]

\* StateManager.dispatch on a manager whose current_state is cur.
dispatch_call(h, cur, state_change) ==
  IF ~IsStateChange(state_change)
    THEN Raised("AssertionError", h, cur, None, NoIteration)
    ELSE
      LET cp == deepcopy(h, cur)
          next_state == cp.ref
          iteration == state_transition(cp.heap, next_state, state_change)
      IN
      IF iteration.kind = "raise"
        THEN Raised("Exception", iteration.heap, cur, next_state, iteration)
      ELSE IF iteration.kind # "TransitionResult"
        THEN Raised("AssertionError", iteration.heap, cur, next_state, iteration)
      ELSE
        LET new_current == NewCurrentState(next_state, iteration)
            events == DispatchEvents(iteration)
        IN
        IF ~IsState(new_current)
          THEN Raised("AssertionError", iteration.heap, new_current, next_state, iteration)
        ELSE IF \E i \in 1..Len(events) : ~IsEvent(events[i])
          THEN Raised("AssertionError", iteration.heap, new_current, next_state, iteration)
        ELSE
          [status |-> "ok", heap |-> iteration.heap, current_state |-> new_current,
           ret_state |-> ReturnedState(next_state, iteration), ret_events |-> events,
           copy |-> next_state,
           iter_kind |-> iteration.kind, iter_state |-> iteration.new_state,
           iter_events |-> iteration.events]

\* What the caller of the last dispatch saw, with the values before the call.
LastRecord(m, sc, r) ==
  [mgr |-> m, sc |-> sc, status |-> r.status,
   pre_ref |-> current_state[m], pre_value |-> Val(heap, current_state[m]),
   copy |-> r.copy, ret_state |-> r.ret_state, ret_events |-> r.ret_events,
   iter_kind |-> r.iter_kind, iter_state |-> r.iter_state, iter_events |-> r.iter_events]

\* One line of a manager's history: what the call produced and the state it left.
Outcome(r) ==
  [status |-> r.status, events |-> r.ret_events,
   ret_value |-> Val(r.heap, r.ret_state), value |-> Val(r.heap, r.current_state)]

Apply(m, sc, r) ==
  /\ heap' = r.heap
  /\ current_state' = [current_state EXCEPT ![m] = r.current_state]
  /\ last' = LastRecord(m, sc, r)
  /\ returned' = IF r.status = "ok" THEN returned \cup {r.ret_state} ELSE returned
  /\ hist' = [hist EXCEPT ![m] = Append(@, Outcome(r))]

\* The running node dispatches a state change, which is written to the log.
dispatch(state_change) ==
  /\ UNCHANGED <<msgvars, hashvars>>
  /\ Len(wal) < MaxDispatch
  /\ Apply(Live, state_change, dispatch_call(heap, current_state[Live], state_change))
  /\ wal' = Append(wal, state_change)

\* The recovered node re-dispatches the next logged state change.
replay ==
  /\ UNCHANGED <<msgvars, hashvars>>
  /\ Len(hist[Recovered]) < Len(wal)
  /\ LET sc == wal[Len(hist[Recovered]) + 1]
     IN Apply(Recovered, sc, dispatch_call(heap, current_state[Recovered], sc))
  /\ UNCHANGED wal


(***************************************************************************)
(* Part 2: messages.  A byte string is the pair of its length and of the   *)
(* integer its bytes spell big-endian; a digest is named by what was       *)
(* hashed; a signature by the signer and the data that were signed.  The   *)
(* integer limits are scaled down, every comparison against them is kept.  *)
(***************************************************************************)

\* ------------------------------------------------------------- bounds
\* Largest value of the field a constructor call varies.
FieldMax == 2
\* Number of operations on messages in one run.
MaxMsgOps == 5
\* Number of sender lookups on new messages in one run.
MaxCalls == 2
\* Number of hash reads and field changes in one run.
MaxHashOps == 4

\* ---------------------------------------------------------- constants
\* raiden.constants, scaled: UINT64_MAX stands for 2^64 - 1, UINT256_MAX for 2^256 - 1.
UINT64_MAX == 12
UINT256_MAX == 14
\* LRUCache(maxsize=128)
SENDERS_CACHE_MAXSIZE == 128

Bytes(n, v) == [len |-> n, val |-> v]
B20(v) == Bytes(20, v)
B32(v) == Bytes(32, v)
\* EMPTY_SIGNATURE = bytes(65)
EMPTY_SIGNATURE == Bytes(65, 0)
\* Python's None, where a message field or a result may hold it.
NoneObj == [none |-> TRUE]

Signers == {1, 2}
\* The address of a signer's key.
AddressOf(signer) == B20(signer)
\* The address recovery yields for a signature made over other data.
UnrelatedAddress == B20(0)
InvalidSignature == [raise |-> "InvalidSignature"]
\* The other exceptions a call may end with.
InvalidProtocolMessage == [raise |-> "InvalidProtocolMessage"]
IndexError == [raise |-> "IndexError"]
ValueError == [raise |-> "ValueError"]

\* raiden.utils.sha3 (keccak256), taken to be free of collisions.
sha3(data) == [keccak |-> data]

\* Signer.sign(data)
SignerSign(signer, data) == [signer |-> signer, signed |-> data]
IsRealSignature(sig) == "signer" \in DOMAIN sig

\* raiden.utils.signer.recover(data, signature): the signer's address when the
\* signature was made over data, another address when it was made over other
\* data, InvalidSignature when the bytes are no signature.
recover(data, sig) ==
  IF ~IsRealSignature(sig) THEN InvalidSignature
  ELSE IF sig.signed = data THEN AddressOf(sig.signer)
  ELSE UnrelatedAddress

\* ----------------------------------------------------- message classes
EnvelopeClasses == {"Unlock", "LockedTransfer", "RefundTransfer", "LockExpired"}
\* CMDID_TO_CLASS.values()
CmdidClasses ==
  { "Delivered", "LockedTransfer", "Ping", "Pong", "Processed", "RefundTransfer",
    "RevealSecret", "Unlock", "SecretRequest", "LockExpired", "ToDevice" }
SignedClasses == CmdidClasses \cup {"UpdatePFS", "RequestMonitoring"}

\* isinstance(m, klass)
IsInstance(m, klass) ==
  \/ m.cls = klass
  \/ m.cls = "RefundTransfer" /\ klass = "LockedTransfer"

\* cmdid: ClassVar[int] of each class, named as in raiden.encoding.messages.
CmdidOf(cls) ==
  CASE cls = "Processed" -> "PROCESSED"
    [] cls = "ToDevice" -> "TODEVICE"
    [] cls = "Delivered" -> "DELIVERED"
    [] cls = "Pong" -> "PONG"
    [] cls = "Ping" -> "PING"
    [] cls = "SecretRequest" -> "SECRETREQUEST"
    [] cls = "Unlock" -> "UNLOCK"
    [] cls = "RevealSecret" -> "REVEALSECRET"
    [] cls = "LockedTransfer" -> "LOCKEDTRANSFER"
    [] cls = "RefundTransfer" -> "REFUNDTRANSFER"
    [] cls = "LockExpired" -> "LOCKEXPIRED"

\* ------------------------------------------------ construction checks
assert_envelope_values(nonce, channel_identifier, transferred_amount, locked_amount, locksroot) ==
  /\ ~(nonce <= 0)
  /\ ~(nonce > UINT64_MAX)
  /\ ~(channel_identifier < 0)
  /\ ~(channel_identifier > UINT256_MAX)
  /\ ~(transferred_amount < 0)
  /\ ~(transferred_amount > UINT256_MAX)
  /\ ~(locked_amount < 0)
  /\ ~(locked_amount > UINT256_MAX)
  /\ ~(locksroot.len # 32)

assert_transfer_values(payment_identifier, token, recipient) ==
  /\ ~(payment_identifier < 0)
  /\ ~(payment_identifier > UINT64_MAX)
  /\ ~(token.len # 20)
  /\ ~(recipient.len # 20)

\* A variant that checks nothing.
EnvelopeMessage_post_init_unchecked(m) == TRUE

EnvelopeMessage_post_init(m) ==
  assert_envelope_values(m.nonce, m.channel_identifier, m.transferred_amount,
                         m.locked_amount, m.locksroot)

Unlock_post_init(m) ==
  /\ EnvelopeMessage_post_init(m)
  /\ ~(m.payment_identifier < 0)
  /\ ~(m.payment_identifier > UINT64_MAX)
  /\ ~(m.secret.len # 32)

\* raiden.utils.ishash
ishash(data) == data.len = 32

Lock_post_init(lock) ==
  /\ ~(lock.amount < 0)
  /\ ~(lock.amount > UINT256_MAX)
  /\ ~(lock.expiration < 0)
  /\ ~(lock.expiration > UINT256_MAX)
  /\ ishash(lock.secrethash)

LockedTransferBase_post_init(m) ==
  /\ EnvelopeMessage_post_init(m)
  /\ assert_transfer_values(m.payment_identifier, m.token, m.recipient)

\* A variant without the checks of target and initiator.
LockedTransfer_post_init_without_addresses(m) ==
  /\ LockedTransferBase_post_init(m)
  /\ ~(m.fee > UINT256_MAX)

LockedTransfer_post_init(m) ==
  /\ LockedTransferBase_post_init(m)
  /\ ~(m.target.len # 20)
  /\ ~(m.initiator.len # 20)
  /\ ~(m.fee > UINT256_MAX)

SignedBlindedBalanceProof_post_init(bp) == ~(bp.signature = EMPTY_SIGNATURE)

\* UpdatePFS.__post_init__: a signature of None is replaced by EMPTY_SIGNATURE.
UpdatePFS_post_init(m) ==
  IF m.signature = NoneObj THEN [m EXCEPT !.signature = EMPTY_SIGNATURE] ELSE m

\* __post_init__ of the message's class: the object it leaves behind, or
\* ValueError.  The Lock of a transfer is built, and checked, before the message.
post_init(m) ==
  CASE m.cls = "Unlock" -> IF Unlock_post_init(m) THEN m ELSE ValueError
    [] m.cls \in {"LockedTransfer", "RefundTransfer"} ->
         IF Lock_post_init(m.lock) /\ LockedTransfer_post_init(m) THEN m ELSE ValueError
    [] m.cls = "LockExpired" -> IF EnvelopeMessage_post_init(m) THEN m ELSE ValueError
    [] m.cls = "RequestMonitoring" ->
         IF SignedBlindedBalanceProof_post_init(m.balance_proof) THEN m ELSE ValueError
    [] m.cls = "UpdatePFS" -> UpdatePFS_post_init(m)
    [] OTHER -> m

\* ------------------------------------------------------ message values
\* The fields every EnvelopeMessage has; nonce is the field a call varies.
EnvelopeFields(x) ==
  [chain_id |-> 1, nonce |-> x, transferred_amount |-> 2, locked_amount |-> 3,
   locksroot |-> B32(4), channel_identifier |-> 5,
   token_network_address |-> B20(6), message_identifier |-> 7]

TransferFields ==
  [payment_identifier |-> 8, token |-> B20(9), recipient |-> B20(10),
   lock |-> [amount |-> 11, expiration |-> 12, secrethash |-> B32(13)],
   target |-> B20(11), initiator |-> B20(12), fee |-> 9]

\* raiden.transfer.utils.hash_balance_data
hash_balance_data(transferred_amount, locked_amount, locksroot) ==
  IF transferred_amount = 0 /\ locked_amount = 0 /\ locksroot = B32(0)
    THEN B32(0)
    ELSE sha3([transferred_amount |-> transferred_amount,
               locked_amount |-> locked_amount, locksroot |-> locksroot])

\* raiden.transfer.balance_proof.pack_balance_proof
pack_balance_proof(nonce, balance_hash, additional_hash, canonical_identifier) ==
  [token_network_address |-> canonical_identifier.token_network_address,
   chain_id |-> canonical_identifier.chain_identifier,
   msg_type |-> 1,
   channel_identifier |-> canonical_identifier.channel_identifier,
   balance_hash |-> balance_hash, nonce |-> nonce, additional_hash |-> additional_hash]

\* raiden.transfer.balance_proof.pack_balance_proof_update
pack_balance_proof_update(nonce, balance_hash, additional_hash, canonical_identifier, partner_signature) ==
  [token_network_address |-> canonical_identifier.token_network_address,
   chain_id |-> canonical_identifier.chain_identifier,
   msg_type |-> 2,
   channel_identifier |-> canonical_identifier.channel_identifier,
   balance_hash |-> balance_hash, nonce |-> nonce, additional_hash |-> additional_hash,
   partner_signature |-> partner_signature]

\* raiden.transfer.balance_proof.pack_reward_proof
pack_reward_proof(canonical_identifier, reward_amount, nonce) ==
  [channel_identifier |-> canonical_identifier.channel_identifier,
   reward_amount |-> reward_amount,
   token_network_address |-> canonical_identifier.token_network_address,
   chain_id |-> canonical_identifier.chain_identifier, nonce |-> nonce]

CanonicalIdentifier(chain_identifier, token_network_address, channel_identifier) ==
  [chain_identifier |-> chain_identifier,
   token_network_address |-> token_network_address,
   channel_identifier |-> channel_identifier]

\* SignedBlindedBalanceProof.from_balance_proof_signed_state, for the balance
\* proof (nonce 1, transferred 2, locked 3) the partner, signer 1, has signed.
SignedBlindedBalanceProof_from_balance_proof_signed_state ==
  LET balance_hash == hash_balance_data(2, 3, B32(4))
      additional_hash == B32(7)
      partner_signature ==
        SignerSign(1, pack_balance_proof(1, balance_hash, additional_hash,
                                         CanonicalIdentifier(1, B20(6), 5)))
  IN [channel_identifier |-> 5, token_network_address |-> B20(6), nonce |-> 1,
      additional_hash |-> additional_hash, chain_id |-> 1,
      balance_hash |-> balance_hash, signature |-> partner_signature,
      non_closing_signature |-> EMPTY_SIGNATURE]

\* cls(..., signature=sig): the message object before __post_init__ runs.
NewMessage(cls, x, sig) ==
  CASE cls = "Processed" -> [cls |-> cls, message_identifier |-> x, signature |-> sig]
    [] cls = "ToDevice" -> [cls |-> cls, message_identifier |-> x, signature |-> sig]
    [] cls = "Delivered" ->
         [cls |-> cls, delivered_message_identifier |-> x, signature |-> sig]
    [] cls = "Pong" -> [cls |-> cls, nonce |-> x, signature |-> sig]
    [] cls = "Ping" ->
         [cls |-> cls, nonce |-> x, current_protocol_version |-> 1, signature |-> sig]
    [] cls = "SecretRequest" ->
         [cls |-> cls, message_identifier |-> x, payment_identifier |-> 8,
          secrethash |-> B32(9), amount |-> 10, expiration |-> 11, signature |-> sig]
    [] cls = "RevealSecret" ->
         [cls |-> cls, message_identifier |-> x, secret |-> B32(9), signature |-> sig]
    [] cls = "Unlock" ->
         EnvelopeFields(x) @@
         [cls |-> cls, payment_identifier |-> 8, secret |-> B32(9), signature |-> sig]
    [] cls \in {"LockedTransfer", "RefundTransfer"} ->
         EnvelopeFields(x) @@ TransferFields @@ [cls |-> cls, signature |-> sig]
    [] cls = "LockExpired" ->
         EnvelopeFields(x) @@
         [cls |-> cls, recipient |-> B20(10), secrethash |-> B32(13), signature |-> sig]
    [] cls = "UpdatePFS" ->
         [cls |-> cls, canonical_identifier |-> CanonicalIdentifier(1, B20(6), 5),
          updating_participant |-> B20(7), other_participant |-> B20(8),
          updating_nonce |-> x, other_nonce |-> 2,
          updating_capacity |-> 3, other_capacity |-> 4,
          reveal_timeout |-> 9, mediation_fee |-> 10, signature |-> sig]
    [] cls = "RequestMonitoring" ->
         [cls |-> cls,
          balance_proof |-> SignedBlindedBalanceProof_from_balance_proof_signed_state,
          reward_amount |-> x, non_closing_signature |-> NoneObj, signature |-> sig]

\* ------------------------------------------------------------- packing
\* The fields pack() writes into the wire buffer of each class, under their
\* wire names; packed() also writes the cmdid into the first byte.
Processed_pack(m) ==
  [message_identifier |-> m.message_identifier, signature |-> m.signature]
ToDevice_pack(m) ==
  [message_identifier |-> m.message_identifier, signature |-> m.signature]
Delivered_pack(m) ==
  [delivered_message_identifier |-> m.delivered_message_identifier,
   signature |-> m.signature]
Pong_pack(m) == [nonce |-> m.nonce, signature |-> m.signature]
Ping_pack(m) ==
  [nonce |-> m.nonce, current_protocol_version |-> m.current_protocol_version,
   signature |-> m.signature]
SecretRequest_pack(m) ==
  [message_identifier |-> m.message_identifier,
   payment_identifier |-> m.payment_identifier, secrethash |-> m.secrethash,
   amount |-> m.amount, expiration |-> m.expiration, signature |-> m.signature]
Unlock_pack(m) ==
  [chain_id |-> m.chain_id, message_identifier |-> m.message_identifier,
   payment_identifier |-> m.payment_identifier, nonce |-> m.nonce,
   token_network_address |-> m.token_network_address,
   channel_identifier |-> m.channel_identifier,
   transferred_amount |-> m.transferred_amount, locked_amount |-> m.locked_amount,
   locksroot |-> m.locksroot, secret |-> m.secret, signature |-> m.signature]
RevealSecret_pack(m) ==
  [message_identifier |-> m.message_identifier, secret |-> m.secret,
   signature |-> m.signature]
LockedTransfer_pack(m) ==
  [chain_id |-> m.chain_id, message_identifier |-> m.message_identifier,
   payment_identifier |-> m.payment_identifier, nonce |-> m.nonce,
   token_network_address |-> m.token_network_address, token |-> m.token,
   channel_identifier |-> m.channel_identifier,
   transferred_amount |-> m.transferred_amount, locked_amount |-> m.locked_amount,
   recipient |-> m.recipient, locksroot |-> m.locksroot,
   target |-> m.target, initiator |-> m.initiator, fee |-> m.fee,
   amount |-> m.lock.amount, expiration |-> m.lock.expiration,
   secrethash |-> m.lock.secrethash, signature |-> m.signature]
LockExpired_pack(m) ==
  [chain_id |-> m.chain_id, nonce |-> m.nonce,
   message_identifier |-> m.message_identifier,
   token_network_address |-> m.token_network_address,
   channel_identifier |-> m.channel_identifier,
   transferred_amount |-> m.transferred_amount, locked_amount |-> m.locked_amount,
   recipient |-> m.recipient, locksroot |-> m.locksroot,
   secrethash |-> m.secrethash, signature |-> m.signature]
\* RequestMonitoring.reward_proof_signature
reward_proof_signature(m) == m.signature

\* RequestMonitoring.pack: ValueError when a signature is None.
RequestMonitoring_pack(m) ==
  IF m.non_closing_signature = NoneObj THEN ValueError
  ELSE IF reward_proof_signature(m) = NoneObj THEN ValueError
  ELSE
  [nonce |-> m.balance_proof.nonce, chain_id |-> m.balance_proof.chain_id,
   token_network_address |-> m.balance_proof.token_network_address,
   channel_identifier |-> m.balance_proof.channel_identifier,
   balance_hash |-> m.balance_proof.balance_hash,
   additional_hash |-> m.balance_proof.additional_hash,
   signature |-> m.balance_proof.signature,
   non_closing_signature |-> m.non_closing_signature,
   reward_amount |-> m.reward_amount,
   reward_proof_signature |-> reward_proof_signature(m)]
UpdatePFS_pack(m) ==
  [chain_id |-> m.canonical_identifier.chain_identifier,
   token_network_address |-> m.canonical_identifier.token_network_address,
   channel_identifier |-> m.canonical_identifier.channel_identifier,
   updating_participant |-> m.updating_participant,
   other_participant |-> m.other_participant,
   updating_nonce |-> m.updating_nonce, other_nonce |-> m.other_nonce,
   updating_capacity |-> m.updating_capacity, other_capacity |-> m.other_capacity,
   reveal_timeout |-> m.reveal_timeout, fee |-> m.mediation_fee,
   signature |-> m.signature]

\* self.pack(packed), by the class of the message.
pack(m) ==
  CASE m.cls = "Processed" -> Processed_pack(m)
    [] m.cls = "ToDevice" -> ToDevice_pack(m)
    [] m.cls = "Delivered" -> Delivered_pack(m)
    [] m.cls = "Pong" -> Pong_pack(m)
    [] m.cls = "Ping" -> Ping_pack(m)
    [] m.cls = "SecretRequest" -> SecretRequest_pack(m)
    [] m.cls = "Unlock" -> Unlock_pack(m)
    [] m.cls = "RevealSecret" -> RevealSecret_pack(m)
    [] m.cls \in {"LockedTransfer", "RefundTransfer"} -> LockedTransfer_pack(m)
    [] m.cls = "LockExpired" -> LockExpired_pack(m)
    [] m.cls = "RequestMonitoring" -> RequestMonitoring_pack(m)
    [] m.cls = "UpdatePFS" -> UpdatePFS_pack(m)

\* Message.packed(): data[0] = self.cmdid, then pack.  RequestMonitoring and
\* UpdatePFS override packed() and write no cmdid.
packed(m) ==
  IF m.cls \in CmdidClasses
    THEN [cmdid |-> CmdidOf(m.cls)] @@ pack(m)
    ELSE pack(m)

\* packed.data[: -field.size_bytes], field being the last one of the layout,
\* the signature: the wire bytes without the trailing signature.
WithoutSignature(m) ==
  LET p == packed(m) IN [f \in DOMAIN p \ {"signature"} |-> p[f]]

\* Message.hash
MessageHash(m) == sha3(packed(m))

\* Message.__eq__
MessageEq(a, b) == IsInstance(b, a.cls) /\ MessageHash(a) = MessageHash(b)

\* SignedMessage._data_to_sign
SignedMessage_data_to_sign(m) == WithoutSignature(m)

\* A variant that hashes every packed byte, the signature included.
message_hash_of_all_bytes(m) == sha3(packed(m))

\* EnvelopeMessage.message_hash (property)
message_hash(m) == sha3(WithoutSignature(m))

\* A variant that signs what SignedMessage signs, the wire bytes without the
\* signature; EnvelopeMessage overrides it.
EnvelopeMessage_signs_wire_bytes(m) == WithoutSignature(m)

\* EnvelopeMessage._data_to_sign
EnvelopeMessage_data_to_sign(m) ==
  LET balance_hash == hash_balance_data(m.transferred_amount, m.locked_amount, m.locksroot)
  IN pack_balance_proof(m.nonce, balance_hash, message_hash(m),
                        CanonicalIdentifier(m.chain_id, m.token_network_address,
                                            m.channel_identifier))

\* SignedBlindedBalanceProof._data_to_sign
SignedBlindedBalanceProof_data_to_sign(bp) ==
  pack_balance_proof_update(bp.nonce, bp.balance_hash, bp.additional_hash,
                            CanonicalIdentifier(bp.chain_id, bp.token_network_address,
                                                bp.channel_identifier),
                            bp.signature)

\* RequestMonitoring._data_to_sign
RequestMonitoring_data_to_sign(m) ==
  pack_reward_proof(CanonicalIdentifier(m.balance_proof.chain_id,
                                        m.balance_proof.token_network_address,
                                        m.balance_proof.channel_identifier),
                    m.reward_amount, m.balance_proof.nonce)

\* self._data_to_sign(), by the class of the message.
data_to_sign(m) ==
  IF m.cls \in EnvelopeClasses THEN EnvelopeMessage_data_to_sign(m)
  ELSE IF m.cls = "RequestMonitoring" THEN RequestMonitoring_data_to_sign(m)
  ELSE SignedMessage_data_to_sign(m)


\* ----------------------------------------------------------- unpacking
\* cls.unpack(packed): the constructor call each class makes from the wire fields.
Processed_unpack(p) ==
  [cls |-> "Processed", message_identifier |-> p.message_identifier,
   signature |-> p.signature]
ToDevice_unpack(p) ==
  [cls |-> "ToDevice", message_identifier |-> p.message_identifier,
   signature |-> p.signature]
Delivered_unpack(p) ==
  [cls |-> "Delivered", delivered_message_identifier |-> p.delivered_message_identifier,
   signature |-> p.signature]
Pong_unpack(p) == [cls |-> "Pong", nonce |-> p.nonce, signature |-> p.signature]
Ping_unpack(p) ==
  [cls |-> "Ping", nonce |-> p.nonce,
   current_protocol_version |-> p.current_protocol_version, signature |-> p.signature]
SecretRequest_unpack(p) ==
  [cls |-> "SecretRequest", message_identifier |-> p.message_identifier,
   payment_identifier |-> p.payment_identifier, secrethash |-> p.secrethash,
   amount |-> p.amount, expiration |-> p.expiration, signature |-> p.signature]
Unlock_unpack(p) ==
  [cls |-> "Unlock", chain_id |-> p.chain_id,
   message_identifier |-> p.message_identifier,
   payment_identifier |-> p.payment_identifier, nonce |-> p.nonce,
   token_network_address |-> p.token_network_address,
   channel_identifier |-> p.channel_identifier,
   transferred_amount |-> p.transferred_amount, locked_amount |-> p.locked_amount,
   locksroot |-> p.locksroot, secret |-> p.secret, signature |-> p.signature]
RevealSecret_unpack(p) ==
  [cls |-> "RevealSecret", message_identifier |-> p.message_identifier,
   secret |-> p.secret, signature |-> p.signature]
LockedTransferSwapped_unpack(cls, p) ==
  [cls |-> cls, chain_id |-> p.chain_id,
   message_identifier |-> p.message_identifier,
   payment_identifier |-> p.payment_identifier, nonce |-> p.nonce,
   token_network_address |-> p.token_network_address, token |-> p.token,
   channel_identifier |-> p.channel_identifier,
   transferred_amount |-> p.transferred_amount, locked_amount |-> p.locked_amount,
   recipient |-> p.recipient, locksroot |-> p.locksroot,
   lock |-> [amount |-> p.amount, expiration |-> p.expiration,
             secrethash |-> p.secrethash],
   target |-> p.initiator, initiator |-> p.target, fee |-> p.fee,
   signature |-> p.signature]
\* LockedTransfer.unpack and RefundTransfer.unpack: the same call, on cls.
LockedTransfer_unpack(cls, p) ==
  [cls |-> cls, chain_id |-> p.chain_id,
   message_identifier |-> p.message_identifier,
   payment_identifier |-> p.payment_identifier, nonce |-> p.nonce,
   token_network_address |-> p.token_network_address, token |-> p.token,
   channel_identifier |-> p.channel_identifier,
   transferred_amount |-> p.transferred_amount, locked_amount |-> p.locked_amount,
   recipient |-> p.recipient, locksroot |-> p.locksroot,
   lock |-> [amount |-> p.amount, expiration |-> p.expiration,
             secrethash |-> p.secrethash],
   target |-> p.target, initiator |-> p.initiator, fee |-> p.fee,
   signature |-> p.signature]
LockExpired_unpack(p) ==
  [cls |-> "LockExpired", chain_id |-> p.chain_id, nonce |-> p.nonce,
   message_identifier |-> p.message_identifier,
   token_network_address |-> p.token_network_address,
   channel_identifier |-> p.channel_identifier,
   transferred_amount |-> p.transferred_amount, recipient |-> p.recipient,
   locked_amount |-> p.locked_amount, locksroot |-> p.locksroot,
   secrethash |-> p.secrethash, signature |-> p.signature]

\* UpdatePFS.unpack: both capacities are read from packed.other_capacity.
UpdatePFS_unpack(p) ==
  UpdatePFS_post_init(
  [cls |-> "UpdatePFS",
   canonical_identifier |-> CanonicalIdentifier(p.chain_id, p.token_network_address,
                                                p.channel_identifier),
   updating_participant |-> p.updating_participant,
   other_participant |-> p.other_participant,
   updating_nonce |-> p.updating_nonce, other_nonce |-> p.other_nonce,
   updating_capacity |-> p.other_capacity, other_capacity |-> p.other_capacity,
   reveal_timeout |-> p.reveal_timeout, mediation_fee |-> p.fee,
   signature |-> p.signature])

\* CMDID_TO_CLASS
CMDID_TO_CLASS ==
  [c \in {CmdidOf(k) : k \in CmdidClasses} |->
     CHOOSE k \in CmdidClasses : CmdidOf(k) = c]

unpack(cls, p) ==
  CASE cls = "Processed" -> Processed_unpack(p)
    [] cls = "ToDevice" -> ToDevice_unpack(p)
    [] cls = "Delivered" -> Delivered_unpack(p)
    [] cls = "Pong" -> Pong_unpack(p)
    [] cls = "Ping" -> Ping_unpack(p)
    [] cls = "SecretRequest" -> SecretRequest_unpack(p)
    [] cls = "Unlock" -> Unlock_unpack(p)
    [] cls = "RevealSecret" -> RevealSecret_unpack(p)
    [] cls \in {"LockedTransfer", "RefundTransfer"} -> LockedTransfer_unpack(cls, p)
    [] cls = "LockExpired" -> LockExpired_unpack(p)

\* Message.encode: the bytes of the packed buffer.
encode(m) == packed(m)


\* The value of the first byte of each cmdid (raiden.encoding.messages).
CmdidByte ==
  [PROCESSED |-> 0, PING |-> 1, PONG |-> 2, SECRETREQUEST |-> 3, UNLOCK |-> 4,
   LOCKEDTRANSFER |-> 7, REFUNDTRANSFER |-> 8, REVEALSECRET |-> 11, DELIVERED |-> 12,
   LOCKEXPIRED |-> 13, TODEVICE |-> 14]

\* A byte string is either the wire bytes of a whole message, the record of
\* its fields, or Bytes(n, v): n bytes, fewer than any message has, that are
\* the big-endian digits of v.
IsWire(data) == "cmdid" \in DOMAIN data

\* data[0] of a byte string that is not empty, as the name of the cmdid with
\* that value; v has at most four digits that are not zero.
FirstByte(data) ==
  IF IsWire(data) THEN data.cmdid
  ELSE LET b == IF data.len > 4 THEN 0 ELSE data.val \div (256 ^ (data.len - 1))
       IN IF \E c \in DOMAIN CmdidByte : CmdidByte[c] = b
            THEN CHOOSE c \in DOMAIN CmdidByte : CmdidByte[c] = b
            ELSE "UNASSIGNED"

\* messages.wrap(data): the typed view of the buffer, None for bytes that
\* are not a whole message.
wrap(data) == IF IsWire(data) THEN data ELSE NoneObj

\* Message.decode / SignedMessage.decode: cls.unpack(wrap(data)), None when
\* wrap gives None; unpack calls the constructor, which may raise.
SignedMessage_decode(cls, data) ==
  LET p == wrap(data)
  IN IF p = NoneObj THEN NoneObj ELSE post_init(unpack(cls, p))

\* decode(data): the class is looked up by the first byte and decodes the
\* data.  Only KeyError is caught around the lookup: data[0] of the empty
\* byte string raises IndexError.
decode(data) ==
  IF ~IsWire(data) /\ data.len = 0
    THEN IndexError
  ELSE IF FirstByte(data) \notin DOMAIN CMDID_TO_CLASS
    THEN InvalidProtocolMessage
    ELSE SignedMessage_decode(CMDID_TO_CLASS[FirstByte(data)], data)

\* ------------------------------------------------------- send events
\* type(send_event): the mapped Send* classes, classes derived from one of
\* them, and the base class.
MappedEventTypes ==
  { "SendLockedTransfer", "SendSecretReveal", "SendBalanceProof", "SendSecretRequest",
    "SendRefundTransfer", "SendLockExpired", "SendProcessed" }
OtherEventTypes ==
  { "SendMessageEvent", "SubclassOfSendLockedTransfer", "SubclassOfSendProcessed" }

\* The balance proof an event carries, with the values of the fields f.
BalanceProofOf(f) ==
  [chain_id |-> f.chain_id, nonce |-> f.nonce,
   token_network_address |-> f.token_network_address,
   channel_identifier |-> f.channel_identifier,
   transferred_amount |-> f.transferred_amount, locked_amount |-> f.locked_amount,
   locksroot |-> f.locksroot]

\* An event of exact type t that carries the values of the fields f, f being
\* the fields of the message class the event is sent as.
SendEvent(t, f) ==
  CASE f.cls \in {"LockedTransfer", "RefundTransfer"} ->
         [type |-> t, message_identifier |-> f.message_identifier,
          recipient |-> f.recipient,
          transfer |-> [balance_proof |-> BalanceProofOf(f),
                        payment_identifier |-> f.payment_identifier,
                        token |-> f.token, lock |-> f.lock,
                        target |-> f.target, initiator |-> f.initiator]]
    [] f.cls = "Unlock" ->
         [type |-> t, message_identifier |-> f.message_identifier,
          payment_identifier |-> f.payment_identifier,
          balance_proof |-> BalanceProofOf(f), secret |-> f.secret]
    [] f.cls = "LockExpired" ->
         [type |-> t, message_identifier |-> f.message_identifier,
          balance_proof |-> BalanceProofOf(f), recipient |-> f.recipient,
          secrethash |-> f.secrethash]
    [] f.cls = "RevealSecret" ->
         [type |-> t, message_identifier |-> f.message_identifier, secret |-> f.secret]
    [] f.cls = "SecretRequest" ->
         [type |-> t, message_identifier |-> f.message_identifier,
          payment_identifier |-> f.payment_identifier, secrethash |-> f.secrethash,
          amount |-> f.amount, expiration |-> f.expiration]
    [] f.cls = "Processed" ->
         [type |-> t, message_identifier |-> f.message_identifier]

\* cls(...): the constructor call, __post_init__ included; the Lock of a
\* transfer is built first.
New(m) == post_init(m)

\* A variant that leaves a signature in the message.
Processed_from_event_signed(event) ==
  New([cls |-> "Processed", message_identifier |-> event.message_identifier,
       signature |-> Bytes(65, 1)])

Processed_from_event(event) ==
  New([cls |-> "Processed", message_identifier |-> event.message_identifier,
       signature |-> EMPTY_SIGNATURE])

SecretRequest_from_event(event) ==
  New([cls |-> "SecretRequest", message_identifier |-> event.message_identifier,
       payment_identifier |-> event.payment_identifier,
       secrethash |-> event.secrethash, amount |-> event.amount,
       expiration |-> event.expiration, signature |-> EMPTY_SIGNATURE])

Unlock_from_event(event) ==
  LET balance_proof == event.balance_proof IN
  New([cls |-> "Unlock", chain_id |-> balance_proof.chain_id,
       message_identifier |-> event.message_identifier,
       payment_identifier |-> event.payment_identifier,
       nonce |-> balance_proof.nonce,
       token_network_address |-> balance_proof.token_network_address,
       channel_identifier |-> balance_proof.channel_identifier,
       transferred_amount |-> balance_proof.transferred_amount,
       locked_amount |-> balance_proof.locked_amount,
       locksroot |-> balance_proof.locksroot,
       secret |-> event.secret, signature |-> EMPTY_SIGNATURE])

RevealSecret_from_event(event) ==
  New([cls |-> "RevealSecret", message_identifier |-> event.message_identifier,
       secret |-> event.secret, signature |-> EMPTY_SIGNATURE])

\* LockedTransfer.from_event and RefundTransfer.from_event: the same call, on cls.
LockedTransfer_from_event(cls, event) ==
  LET transfer == event.transfer
      balance_proof == transfer.balance_proof
      lock == [amount |-> transfer.lock.amount, expiration |-> transfer.lock.expiration,
               secrethash |-> transfer.lock.secrethash]
      fee == 0
  IN
  New([cls |-> cls, chain_id |-> balance_proof.chain_id,
       message_identifier |-> event.message_identifier,
       payment_identifier |-> transfer.payment_identifier,
       nonce |-> balance_proof.nonce,
       token_network_address |-> balance_proof.token_network_address,
       token |-> transfer.token,
       channel_identifier |-> balance_proof.channel_identifier,
       transferred_amount |-> balance_proof.transferred_amount,
       locked_amount |-> balance_proof.locked_amount,
       recipient |-> event.recipient, locksroot |-> balance_proof.locksroot,
       lock |-> lock, target |-> transfer.target, initiator |-> transfer.initiator,
       fee |-> fee, signature |-> EMPTY_SIGNATURE])

LockExpired_from_event(event) ==
  LET balance_proof == event.balance_proof IN
  New([cls |-> "LockExpired", chain_id |-> balance_proof.chain_id,
       nonce |-> balance_proof.nonce,
       token_network_address |-> balance_proof.token_network_address,
       channel_identifier |-> balance_proof.channel_identifier,
       transferred_amount |-> balance_proof.transferred_amount,
       locked_amount |-> balance_proof.locked_amount,
       locksroot |-> balance_proof.locksroot,
       message_identifier |-> event.message_identifier,
       recipient |-> event.recipient, secrethash |-> event.secrethash,
       signature |-> EMPTY_SIGNATURE])

\* A variant that selects the class by isinstance: an event of a derived type
\* is handled as its base type.
message_from_sendevent_by_isinstance(send_event) ==
  CASE send_event.type \in {"SendLockedTransfer", "SubclassOfSendLockedTransfer"} ->
         LockedTransfer_from_event("LockedTransfer", send_event)
    [] send_event.type = "SendSecretReveal" -> RevealSecret_from_event(send_event)
    [] send_event.type = "SendBalanceProof" -> Unlock_from_event(send_event)
    [] send_event.type = "SendSecretRequest" -> SecretRequest_from_event(send_event)
    [] send_event.type = "SendRefundTransfer" ->
         LockedTransfer_from_event("RefundTransfer", send_event)
    [] send_event.type = "SendLockExpired" -> LockExpired_from_event(send_event)
    [] send_event.type \in {"SendProcessed", "SubclassOfSendProcessed"} ->
         Processed_from_event(send_event)
    [] OTHER -> ValueError

\* message_from_sendevent: the exact type of the event selects the class.
message_from_sendevent(send_event) ==
  CASE send_event.type = "SendLockedTransfer" ->
         LockedTransfer_from_event("LockedTransfer", send_event)
    [] send_event.type = "SendSecretReveal" -> RevealSecret_from_event(send_event)
    [] send_event.type = "SendBalanceProof" -> Unlock_from_event(send_event)
    [] send_event.type = "SendSecretRequest" -> SecretRequest_from_event(send_event)
    [] send_event.type = "SendRefundTransfer" ->
         LockedTransfer_from_event("RefundTransfer", send_event)
    [] send_event.type = "SendLockExpired" -> LockExpired_from_event(send_event)
    [] send_event.type = "SendProcessed" -> Processed_from_event(send_event)
    [] OTHER -> ValueError

\* ------------------------------------------------------- sender cache
\* cachetools.LRUCache as the sequence of its entries, least recently used first.
CacheIndex(cache, k) == CHOOSE i \in 1..Len(cache) : cache[i].key = k
CacheHas(cache, k) == \E i \in 1..Len(cache) : cache[i].key = k
Without(cache, i) == [j \in 1..(Len(cache) - 1) |-> IF j < i THEN cache[j] ELSE cache[j + 1]]
\* cache[k]: the value, and the entry becomes the most recently used.
CacheGet(cache, k) ==
  LET i == CacheIndex(cache, k)
  IN [value |-> cache[i].value, cache |-> Append(Without(cache, i), cache[i])]
\* cache[k] = v for a key that is not in the cache: the least recently used
\* entry is dropped when the cache is full.
CacheSet(cache, k, v, maxsize) ==
  Append(IF Len(cache) >= maxsize THEN Tail(cache) ELSE cache, [key |-> k, value |-> v])

\* bool(signature)
Truthy(sig) == sig # NoneObj /\ (("len" \in DOMAIN sig) => sig.len # 0)

\* A variant without the except clause: InvalidSignature reaches the caller.
SignedMessage_sender_without_except(m) ==
  IF ~Truthy(m.signature) THEN NoneObj ELSE recover(data_to_sign(m), m.signature)

\* The body of SignedMessage.sender: what is computed on a cache miss.
SignedMessage_sender(m) ==
  IF ~Truthy(m.signature) THEN NoneObj
  ELSE LET address == recover(data_to_sign(m), m.signature)
       IN IF address = InvalidSignature THEN NoneObj ELSE address

\* cached(_senders_cache, key=attrgetter("signature"))
SenderKey(m) == m.signature

\* The property SignedMessage.sender, through the cache.
sender_call(cache, m) ==
  LET k == SenderKey(m) IN
  IF CacheHas(cache, k)
    THEN LET g == CacheGet(cache, k)
         IN [value |-> g.value, cache |-> g.cache, hit |-> TRUE]
    ELSE LET v == SignedMessage_sender(m)
         IN [value |-> v, cache |-> CacheSet(cache, k, v, SENDERS_CACHE_MAXSIZE),
             hit |-> FALSE]

\* ------------------------------------------------------------- signing
\* SignedMessage.sign
SignedMessage_sign(m, signer) ==
  [m EXCEPT !.signature = SignerSign(signer, data_to_sign(m))]

\* SignedBlindedBalanceProof._sign
SignedBlindedBalanceProof_sign(bp, signer) ==
  SignerSign(signer, SignedBlindedBalanceProof_data_to_sign(bp))

RequestMonitoring_sign_writes_balance_proof(m, signer) ==
  [m EXCEPT !.non_closing_signature = SignedBlindedBalanceProof_sign(m.balance_proof, signer),
            !.balance_proof.signature = SignedBlindedBalanceProof_sign(m.balance_proof, signer),
            !.signature = SignerSign(signer, RequestMonitoring_data_to_sign(m))]
\* RequestMonitoring.sign
RequestMonitoring_sign(m, signer) ==
  [m EXCEPT !.non_closing_signature = SignedBlindedBalanceProof_sign(m.balance_proof, signer),
            !.signature = SignerSign(signer, RequestMonitoring_data_to_sign(m))]

sign_call(m, signer) ==
  IF m.cls = "RequestMonitoring"
    THEN RequestMonitoring_sign(m, signer)
    ELSE SignedMessage_sign(m, signer)

\* ------------------------------------------------------------- actions
Slots == 1..2
Absent == [cls |-> "absent"]
Exists(i) == msgs[i] # Absent

\* The signatures a new message may be given: the empty one, or the bytes of
\* a signature another message carries (a message read from the wire).
KnownSignatures ==
  {EMPTY_SIGNATURE} \cup {msgs[j].signature : j \in {k \in Slots : Exists(k)}}

MsgOp(op, i, status, result, data, pre) ==
  [op |-> op, slot |-> i, status |-> status, result |-> result, data |-> data, pre |-> pre]

\* v = cls(..., signature=sig); a failed __post_init__ leaves no message.
\* Slot 1 holds a message of any class, slot 2 a second message of that class.
construct(i, cls, x, sig) ==
  /\ nops < MaxMsgOps
  /\ ~Exists(i)
  /\ i = 2 => Exists(1) /\ cls = msgs[1].cls
  /\ UNCHANGED <<smvars, hashvars>>
  /\ LET m == post_init(NewMessage(cls, x, sig)) IN
       IF m # ValueError
         THEN /\ msgs' = [msgs EXCEPT ![i] = m]
              /\ signed_by' = [signed_by EXCEPT ![i] = 0]
              /\ mlast' = MsgOp("construct", i, "ok", NoneObj, NoneObj, msgs[i])
         ELSE /\ mlast' = MsgOp("construct", i, "ValueError", NoneObj, NoneObj, msgs[i])
              /\ UNCHANGED <<msgs, signed_by>>
  /\ nops' = nops + 1
  /\ UNCHANGED senders_cache

\* v.sign(signer)
sign(i, signer) ==
  /\ nops < MaxMsgOps
  /\ UNCHANGED <<smvars, hashvars>>
  /\ Exists(i)
  /\ msgs' = [msgs EXCEPT ![i] = sign_call(msgs[i], signer)]
  /\ signed_by' = [signed_by EXCEPT ![i] = signer]
  /\ mlast' = MsgOp("sign", i, "ok", NoneObj, data_to_sign(msgs[i]), msgs[i])
  /\ nops' = nops + 1
  /\ UNCHANGED senders_cache

\* v.sender
sender(i) ==
  /\ nops < MaxMsgOps
  /\ UNCHANGED <<smvars, hashvars>>
  /\ Exists(i)
  /\ LET r == sender_call(senders_cache, msgs[i]) IN
       /\ senders_cache' = r.cache
       /\ mlast' = MsgOp("sender", i, IF r.hit THEN "hit" ELSE "miss", r.value,
                         IF ~r.hit /\ Truthy(msgs[i].signature)
                           THEN data_to_sign(msgs[i]) ELSE NoneObj,
                         msgs[i])
  /\ nops' = nops + 1
  /\ UNCHANGED <<msgs, signed_by>>

\* decode(v.encode())
roundtrip(i) ==
  /\ nops < MaxMsgOps
  /\ UNCHANGED <<smvars, hashvars>>
  /\ Exists(i)
  /\ msgs[i].cls \in CmdidClasses
  /\ mlast' = MsgOp("roundtrip", i, "ok", decode(encode(msgs[i])), encode(msgs[i]), msgs[i])
  /\ nops' = nops + 1
  /\ UNCHANGED <<msgs, signed_by, senders_cache>>

\* ------------------------------------------------------ single calls
\* Calls that need no message kept from an earlier call: each builds its
\* arguments, makes the call and records what the caller saw.  The calls
\* share no state but the sender cache, so a run makes one call, or a
\* sequence of sender lookups.

\* A byte string of signature length that no signer made.
NotASignature == Bytes(65, 1)

\* The signature signer 1 makes over the data of cls(1, ...).
SignatureOfFirst(cls) ==
  SignerSign(1, data_to_sign(NewMessage(cls, 1, EMPTY_SIGNATURE)))

\* The signatures a message read by sender may carry.
SenderSignatures(cls) ==
  {EMPTY_SIGNATURE, NoneObj, NotASignature, SignatureOfFirst(cls)}

\* cls(x, signature=sig).sender
sender_of(cls, x, sig) ==
  /\ nops < MaxCalls
  /\ UNCHANGED <<smvars, hashvars>>
  /\ post_init(NewMessage(cls, x, sig)) # ValueError
  /\ LET m == post_init(NewMessage(cls, x, sig))
         r == sender_call(senders_cache, m)
     IN /\ senders_cache' = r.cache
        /\ mlast' = MsgOp("sender", 1, IF r.hit THEN "hit" ELSE "miss", r.value,
                          NoneObj, m)
  /\ nops' = nops + 1
  /\ UNCHANGED <<msgs, signed_by>>

\* The values a call tries for an integer field, and the lengths for a byte
\* string field: the limits of the checks and their neighbours.
IntProbes == {-1, 0, 1, UINT64_MAX, UINT64_MAX + 1, UINT256_MAX, UINT256_MAX + 1}
LenProbes == {19, 20, 21, 31, 32, 33}
IntFields ==
  {"nonce", "channel_identifier", "transferred_amount", "locked_amount",
   "payment_identifier", "fee"}
BytesFields == {"locksroot", "token", "recipient", "target", "initiator"}
Probes(fld) ==
  IF fld \in IntFields THEN IntProbes ELSE {Bytes(n, 3) : n \in LenProbes}

\* The values a field of the wire layout can hold: an unsigned integer of
\* the field's width, a byte string of the field's length.
WireFits(fld, val) ==
  CASE fld \in {"nonce", "payment_identifier"} -> val \in 0..UINT64_MAX
    [] fld \in IntFields \ {"nonce", "payment_identifier"} -> val \in 0..UINT256_MAX
    [] fld = "locksroot" -> val.len = 32
    [] OTHER -> val.len = 20

\* The Send* class whose events are sent as messages of class cls.
EventTypeOf(cls) ==
  CASE cls = "LockedTransfer" -> "SendLockedTransfer"
    [] cls = "RevealSecret" -> "SendSecretReveal"
    [] cls = "Unlock" -> "SendBalanceProof"
    [] cls = "SecretRequest" -> "SendSecretRequest"
    [] cls = "RefundTransfer" -> "SendRefundTransfer"
    [] cls = "LockExpired" -> "SendLockExpired"
    [] cls = "Processed" -> "SendProcessed"

\* The valid fields of a message of class cls, with field fld set to val.
FieldsWith(cls, fld, val) ==
  [NewMessage(cls, 1, EMPTY_SIGNATURE) EXCEPT ![fld] = val]

BuildPaths == {"constructor", "decode", "from_event"}

\* A message of an envelope class built with one field set to a probe value:
\* by the constructor, by decode from the wire bytes that hold the value, or
\* by message_from_sendevent from an event that holds it.
build(cls, path, fld, val) ==
  /\ nops = 0
  /\ UNCHANGED <<smvars, hashvars>>
  /\ fld \in DOMAIN NewMessage(cls, 1, EMPTY_SIGNATURE)
  /\ path = "decode" => WireFits(fld, val)
  /\ LET f == FieldsWith(cls, fld, val)
         result == CASE path = "constructor" -> New(f)
                     [] path = "decode" -> decode(encode(f))
                     [] path = "from_event" ->
                          message_from_sendevent(SendEvent(EventTypeOf(cls), f))
     IN mlast' = MsgOp("build", 1, path, result, [field |-> fld], f)
  /\ nops' = nops + 1
  /\ UNCHANGED <<msgs, signed_by, senders_cache>>

\* The message class whose fields an event of type t carries.
ShapeOf(t) ==
  CASE t \in {"SendLockedTransfer", "SubclassOfSendLockedTransfer"} -> "LockedTransfer"
    [] t = "SendSecretReveal" -> "RevealSecret"
    [] t = "SendBalanceProof" -> "Unlock"
    [] t = "SendSecretRequest" -> "SecretRequest"
    [] t = "SendRefundTransfer" -> "RefundTransfer"
    [] t = "SendLockExpired" -> "LockExpired"
    [] OTHER -> "Processed"

\* message_from_sendevent(send_event), for an event of exact type t with
\* message_identifier x and valid values.
from_sendevent(t, x) ==
  /\ nops = 0
  /\ UNCHANGED <<smvars, hashvars>>
  /\ LET f == [NewMessage(ShapeOf(t), 1, EMPTY_SIGNATURE) EXCEPT !.message_identifier = x]
         send_event == SendEvent(t, f)
     IN mlast' = MsgOp("message_from_sendevent", 1, t,
                       message_from_sendevent(send_event), send_event, f)
  /\ nops' = nops + 1
  /\ UNCHANGED <<msgs, signed_by, senders_cache>>

\* ------------------------------------------------ balance proof states
\* BalanceProofUnsignedState.__post_init__: TRUE when no ValueError is raised.
\* The values are of the declared types, so the isinstance checks pass, and
\* the canonical identifier is a valid one.
BalanceProofUnsignedState_post_init(bp) ==
  /\ ~(bp.nonce <= 0)
  /\ ~(bp.nonce > UINT64_MAX)
  /\ ~(bp.transferred_amount < 0)
  /\ ~(bp.transferred_amount > UINT256_MAX)
  /\ ~(bp.locksroot.len # 32)

\* BalanceProofSignedState.__post_init__
BalanceProofSignedState_post_init(bp) ==
  /\ ~(bp.nonce <= 0)
  /\ ~(bp.nonce > UINT64_MAX)
  /\ ~(bp.transferred_amount < 0)
  /\ ~(bp.transferred_amount > UINT256_MAX)
  /\ ~(bp.locksroot.len # 32)
  /\ ~(bp.message_hash.len # 32)
  /\ ~(bp.signature.len # 65)

\* The constructor of either class: the checks, then balance_hash is set.
NewBalanceProof(bp) ==
  IF \/ bp.cls = "BalanceProofUnsignedState" /\ BalanceProofUnsignedState_post_init(bp)
     \/ bp.cls = "BalanceProofSignedState" /\ BalanceProofSignedState_post_init(bp)
    THEN [bp EXCEPT !.balance_hash =
            hash_balance_data(bp.transferred_amount, bp.locked_amount, bp.locksroot)]
    ELSE ValueError

BalanceProofClasses == {"BalanceProofUnsignedState", "BalanceProofSignedState"}

\* The arguments of a valid balance proof state; balance_hash has its default.
BalanceProofFields(cls) ==
  IF cls = "BalanceProofUnsignedState"
    THEN [cls |-> cls, nonce |-> 1, transferred_amount |-> 2, locked_amount |-> 3,
          locksroot |-> B32(4),
          canonical_identifier |-> CanonicalIdentifier(1, B20(6), 5),
          balance_hash |-> B32(0)]
    ELSE [cls |-> cls, nonce |-> 1, transferred_amount |-> 2, locked_amount |-> 3,
          locksroot |-> B32(4), message_hash |-> B32(7), signature |-> Bytes(65, 8),
          sender |-> B20(9),
          canonical_identifier |-> CanonicalIdentifier(1, B20(6), 5),
          balance_hash |-> B32(0)]

\* The values tried for a field of a balance proof state.  locked_amount is
\* given values of its type's range only: __post_init__ does not compare it,
\* and what hash_balance_data does with another value is not in this module.
BalanceProofProbes(fld) ==
  CASE fld \in {"nonce", "transferred_amount"} -> IntProbes
    [] fld = "locked_amount" -> {0, 1, UINT256_MAX}
    [] fld = "signature" -> {Bytes(n, 8) : n \in {64, 65, 66}}
    [] OTHER -> {Bytes(n, 3) : n \in LenProbes}

\* cls(...) of a balance proof state with one field set to a probe value.
build_balance_proof(cls, fld, val) ==
  /\ nops = 0
  /\ UNCHANGED <<smvars, hashvars>>
  /\ fld \in DOMAIN BalanceProofFields(cls) \ {"cls", "canonical_identifier", "balance_hash"}
  /\ LET bp == [BalanceProofFields(cls) EXCEPT ![fld] = val]
     IN mlast' = MsgOp("build_balance_proof", 1, cls, NewBalanceProof(bp),
                       [field |-> fld], bp)
  /\ nops' = nops + 1
  /\ UNCHANGED <<msgs, signed_by, senders_cache>>

\* The signature values a RequestMonitoring may be constructed with.
MonitoringSignatures == {NoneObj, EMPTY_SIGNATURE, NotASignature}

\* RequestMonitoring(balance_proof, reward_amount, signature=sig,
\* non_closing_signature=ncs), sign(signer) unless signer is 0, then packed().
\* from_balance_proof_signed_state builds the message with sig EMPTY_SIGNATURE
\* and ncs None.
pack_request_monitoring(ncs, sig, signer) ==
  /\ nops = 0
  /\ UNCHANGED <<smvars, hashvars>>
  /\ LET m0 == [NewMessage("RequestMonitoring", 1, sig) EXCEPT !.non_closing_signature = ncs]
         m == IF signer = 0 THEN m0 ELSE RequestMonitoring_sign(m0, signer)
     IN mlast' = MsgOp("pack", 1, IF signer = 0 THEN "unsigned" ELSE "signed",
                       packed(m), [signer |-> signer], m)
  /\ nops' = nops + 1
  /\ UNCHANGED <<msgs, signed_by, senders_cache>>

\* `not value` of an Optional[bytes] value: None and the empty bytes.
Falsy(value) == value = NoneObj \/ (~IsRealSignature(value) /\ value.len = 0)

\* RequestMonitoring.verify_request_monitoring with the reward proof left out.
verify_request_monitoring_without_reward_proof(m, partner_address, requesting_address) ==
  IF Falsy(m.non_closing_signature)
    THEN [returns |-> FALSE]
  ELSE LET bp == m.balance_proof
           cid == CanonicalIdentifier(bp.chain_id, bp.token_network_address, bp.channel_identifier)
           first == recover(pack_balance_proof(bp.nonce, bp.balance_hash, bp.additional_hash, cid), bp.signature)
           second == recover(pack_balance_proof_update(bp.nonce, bp.balance_hash, bp.additional_hash, cid, bp.signature), m.non_closing_signature)
       IN IF first = InvalidSignature THEN InvalidSignature
          ELSE IF first # partner_address THEN [returns |-> FALSE]
          ELSE IF second = InvalidSignature THEN InvalidSignature
          ELSE [returns |-> second = requesting_address]

\* RequestMonitoring.verify_request_monitoring: False without a
\* non_closing_signature; else the three recoveries, compared in order, the
\* first mismatch ending the evaluation and a failed recovery raising.
verify_request_monitoring(m, partner_address, requesting_address) ==
  IF Falsy(m.non_closing_signature)
    THEN [returns |-> FALSE]
  ELSE LET bp == m.balance_proof
           cid == CanonicalIdentifier(bp.chain_id, bp.token_network_address, bp.channel_identifier)
           balance_proof_data == pack_balance_proof(bp.nonce, bp.balance_hash, bp.additional_hash, cid)
           blinded_data == pack_balance_proof_update(bp.nonce, bp.balance_hash, bp.additional_hash, cid, bp.signature)
           reward_proof_data == pack_reward_proof(cid, m.reward_amount, bp.nonce)
           signature == IF Falsy(reward_proof_signature(m)) THEN EMPTY_SIGNATURE ELSE reward_proof_signature(m)
           first == recover(balance_proof_data, bp.signature)
           second == recover(blinded_data, m.non_closing_signature)
           third == recover(reward_proof_data, signature)
       IN IF first = InvalidSignature THEN InvalidSignature
          ELSE IF first # partner_address THEN [returns |-> FALSE]
          ELSE IF second = InvalidSignature THEN InvalidSignature
          ELSE IF second # requesting_address THEN [returns |-> FALSE]
          ELSE IF third = InvalidSignature THEN InvalidSignature
          ELSE [returns |-> third = requesting_address]

\* The signatures the balance proof of a monitoring request may carry: the
\* partner's, another key's over the same data, the partner's over another
\* nonce, and bytes that are no signature.
PartnerSignatures ==
  LET bp == SignedBlindedBalanceProof_from_balance_proof_signed_state
      cid == CanonicalIdentifier(bp.chain_id, bp.token_network_address, bp.channel_identifier)
  IN { bp.signature,
       SignerSign(2, pack_balance_proof(bp.nonce, bp.balance_hash, bp.additional_hash, cid)),
       SignerSign(1, pack_balance_proof(bp.nonce + 1, bp.balance_hash, bp.additional_hash, cid)),
       NotASignature }

\* What happens to the message between sign and verification.
Tampers ==
  {"none", "reward_amount", "nonce", "non_closing_signature",
   "corrupt_non_closing_signature", "corrupt_reward_proof_signature"}
Tampered(m, tamper) ==
  CASE tamper = "none" -> m
    [] tamper = "reward_amount" -> [m EXCEPT !.reward_amount = @ + 1]
    [] tamper = "nonce" -> [m EXCEPT !.balance_proof.nonce = @ + 1]
    [] tamper = "non_closing_signature" -> [m EXCEPT !.non_closing_signature = NoneObj]
    [] tamper = "corrupt_non_closing_signature" ->
         [m EXCEPT !.non_closing_signature = NotASignature]
    [] tamper = "corrupt_reward_proof_signature" -> [m EXCEPT !.signature = NotASignature]

\* v = RequestMonitoring(balance_proof, reward_amount); v.sign(signer); then
\* v.verify_request_monitoring(partner_address, requesting_address).
verify(bpsig, signer, tamper, partner, requester) ==
  /\ nops = 0
  /\ UNCHANGED <<smvars, hashvars>>
  /\ LET m0 == [NewMessage("RequestMonitoring", 1, EMPTY_SIGNATURE) EXCEPT !.balance_proof.signature = bpsig]
         m == Tampered(RequestMonitoring_sign(m0, signer), tamper)
     IN mlast' = MsgOp("verify_request_monitoring", 1, tamper,
                       verify_request_monitoring(m, AddressOf(partner), AddressOf(requester)),
                       [partner_address |-> AddressOf(partner),
                        requesting_address |-> AddressOf(requester), signer |-> signer], m)
  /\ nops' = nops + 1
  /\ UNCHANGED <<msgs, signed_by, senders_cache>>

\* ----------------------------------------------------- structured form
\* CLASSNAME_TO_CLASS: the class names of CMDID_TO_CLASS, and "Secret" for Unlock.
CLASSNAME_TO_CLASS ==
  [n \in CmdidClasses \cup {"Secret"} |-> IF n = "Secret" THEN "Unlock" ELSE n]

\* DictSerializer.serialize(data): the library's result for a dict whose
\* "type" is known, kept as the dict it was given.
DictSerializer_serialize(data) == [serialized |-> data]

\* from_dict(data) with the lookup of data["type"] left out.
from_dict_without_lookup(data) == DictSerializer_serialize(data)

\* from_dict(data): data["type"] is looked up in CLASSNAME_TO_CLASS, a
\* KeyError from either lookup becomes InvalidProtocolMessage.
from_dict(data) ==
  IF "type" \notin DOMAIN data THEN InvalidProtocolMessage
  ELSE IF data.type \notin DOMAIN CLASSNAME_TO_CLASS THEN InvalidProtocolMessage
  ELSE DictSerializer_serialize(data)

\* First bytes that no class of CMDID_TO_CLASS is registered under.
UnknownCmdids == {"UNASSIGNED_LOW", "UNASSIGNED_HIGH"}
\* The values of "type" tried: the keys of CLASSNAME_TO_CLASS, names that are
\* no key (the last two are message classes without a cmdid entry), and a
\* dict without the key.
DictTypes ==
  DOMAIN CLASSNAME_TO_CLASS \cup {"Message", "secret", "RequestMonitoring", "UpdatePFS"} \cup {"(no type)"}

\* decode(data), data being the wire bytes of a signed cls(x, ...) with the
\* first byte set to first.
decode_bytes(cls, x, first) ==
  /\ nops = 0
  /\ UNCHANGED <<smvars, hashvars>>
  /\ first = CmdidOf(cls) \/ first \in UnknownCmdids
  /\ LET m == SignedMessage_sign(NewMessage(cls, x, EMPTY_SIGNATURE), 1)
         data == [packed(m) EXCEPT !.cmdid = first]
     IN mlast' = MsgOp("decode", 1, first, decode(data), data, m)
  /\ nops' = nops + 1
  /\ UNCHANGED <<msgs, signed_by, senders_cache>>

\* decode(b"")
decode_empty ==
  /\ nops = 0
  /\ UNCHANGED <<smvars, hashvars>>
  /\ mlast' = MsgOp("decode", 1, "empty", decode(Bytes(0, 0)), Bytes(0, 0), Absent)
  /\ nops' = nops + 1
  /\ UNCHANGED <<msgs, signed_by, senders_cache>>

\* Byte strings shorter than any message: the first byte is a registered
\* cmdid (0 and 1) or none (255 and 5).
ShortData == {Bytes(1, 1), Bytes(1, 255), Bytes(2, 256), Bytes(2, 5 * 256 + 1), Bytes(3, 0)}

\* decode(data), data being a few bytes only.
decode_short(data) ==
  /\ nops = 0
  /\ UNCHANGED <<smvars, hashvars>>
  /\ mlast' = MsgOp("decode", 1, "short", decode(data), data, Absent)
  /\ nops' = nops + 1
  /\ UNCHANGED <<msgs, signed_by, senders_cache>>

\* from_dict(data), data being a dict with message_identifier x and "type" t,
\* or without the key "type".
from_dict_call(t, x) ==
  /\ nops = 0
  /\ UNCHANGED <<smvars, hashvars>>
  /\ LET data == IF t = "(no type)" THEN [message_identifier |-> x]
                 ELSE [type |-> t, message_identifier |-> x]
     IN mlast' = MsgOp("from_dict", 1, t, from_dict(data), data, Absent)
  /\ nops' = nops + 1
  /\ UNCHANGED <<msgs, signed_by, senders_cache>>

\* --------------------------------------------------------------- locks
\* A Lock object: its three fields and the identity of the object.
Lock(id, amount, expiration, secrethash) ==
  [id |-> id, amount |-> amount, expiration |-> expiration, secrethash |-> secrethash]

\* Lock.as_bytes: the 96 bytes of the Lock layout, amount, expiration and
\* secrethash in 32 bytes each.
Lock_as_bytes(lock) ==
  [len |-> 96, amount |-> lock.amount, expiration |-> lock.expiration,
   secrethash |-> lock.secrethash]

\* Lock.from_bytes(serialized): a new object, id, built by the constructor.
Lock_from_bytes(serialized, id) ==
  LET lock == Lock(id, serialized.amount, serialized.expiration, serialized.secrethash)
  IN IF Lock_post_init(lock) THEN lock ELSE ValueError

\* a == b for two Locks: the class is declared with eq=False and defines no
\* __eq__, so the comparison is the one of object, by identity.
Lock_eq(a, b) == a.id = b.id

\* v = UpdatePFS(...) with the two capacities given, signed unless signer is
\* 0; then UpdatePFS.unpack(v.packed()).
update_pfs_unpack(x, updating_capacity, other_capacity, signer) ==
  /\ nops = 0
  /\ UNCHANGED <<smvars, hashvars>>
  /\ LET v0 == [NewMessage("UpdatePFS", x, EMPTY_SIGNATURE) EXCEPT !.updating_capacity = updating_capacity, !.other_capacity = other_capacity]
         v == IF signer = 0 THEN v0 ELSE SignedMessage_sign(v0, signer)
     IN mlast' = MsgOp("UpdatePFS.unpack", 1, IF signer = 0 THEN "unsigned" ELSE "signed",
                       UpdatePFS_unpack(packed(v)), packed(v), v)
  /\ nops' = nops + 1
  /\ UNCHANGED <<msgs, signed_by, senders_cache>>

\* -------------------------------------------------------- hash caches
\* _hashes_cache and _lock_bytes_cache: LRUCache(maxsize=128)
HASHES_CACHE_MAXSIZE == 128
LOCK_BYTES_CACHE_MAXSIZE == 128

\* cachetools.cached(cache, key): the value stored under k when there is one,
\* else v, the result of the wrapped function, which is then stored under k.
cached(cache, k, v, maxsize) ==
  IF CacheHas(cache, k)
    THEN LET g == CacheGet(cache, k) IN [value |-> g.value, cache |-> g.cache, hit |-> TRUE]
    ELSE [value |-> v, cache |-> CacheSet(cache, k, v, maxsize), hit |-> FALSE]

\* A key of the bytes cache that leaves the amount out.
as_bytes_key_without_amount(lock) == <<lock.expiration, lock.secrethash>>

\* key=attrgetter("amount", "expiration", "secrethash")
as_bytes_key(lock) == <<lock.amount, lock.expiration, lock.secrethash>>

\* key=attrgetter("secret")
secrethash_key(m) == m.secret

\* Unlock.secrethash and RevealSecret.secrethash, through _hashes_cache.
secrethash_call(cache, m) ==
  cached(cache, secrethash_key(m), sha3(m.secret), HASHES_CACHE_MAXSIZE)

\* Lock.as_bytes, through _lock_bytes_cache.
as_bytes_call(cache, lock) ==
  cached(cache, as_bytes_key(lock), Lock_as_bytes(lock), LOCK_BYTES_CACHE_MAXSIZE)

\* Lock.lockhash, through _hashes_cache: the key is self.as_bytes, and on a
\* miss the body reads self.as_bytes again, which the bytes cache then holds
\* as its most recent entry.
lockhash_call(hashes, bytes_cache, lock) ==
  LET b == as_bytes_call(bytes_cache, lock)
      h == cached(hashes, b.value, sha3(b.value), HASHES_CACHE_MAXSIZE)
  IN [value |-> h.value, key |-> b.value, hashes_cache |-> h.cache,
      lock_bytes_cache |-> b.cache, hit |-> h.hit]

\* The objects whose hashes are read: one Unlock, one RevealSecret, one Lock.
HashObjects == {"Unlock", "RevealSecret"}
Secrets == {B32(9), B32(10)}
LockAmounts == {11, 12}
\* The secrets of the other messages whose secrethash is read in between.
OtherSecret(i) == Bytes(32, 100 + i)

Keys(cache) == {cache[i].key : i \in 1..Len(cache)}

\* What the last read returned, which class wrote each entry, and the keys
\* that were dropped from _hashes_cache at some point.
HashOp(op, status, result, key, writer, pre) ==
  [op |-> op, status |-> status, result |-> result, key |-> key, writer |-> writer, pre |-> pre]
WriterOf(k) == (CHOOSE e \in hwritten : e.key = k).cls
Written(k, cls) == {e \in hwritten : e.key # k} \cup {[key |-> k, cls |-> cls]}

\* The three objects as they are built.
HashObjects0 ==
  [Unlock |-> NewMessage("Unlock", 1, EMPTY_SIGNATURE),
   RevealSecret |-> NewMessage("RevealSecret", 1, EMPTY_SIGNATURE),
   Lock |-> Lock(1, 11, 12, B32(13))]

\* The caches of a process that has read no hash yet.
InitHashes ==
  /\ hashes_cache = <<>>
  /\ lock_bytes_cache = <<>>
  /\ hobjs = HashObjects0
  /\ hlast = HashOp("none", "init", NoneObj, NoneObj, "none", Absent)
  /\ hwritten = {}
  /\ hevicted = {}

\* v.secrethash, v being the Unlock or the RevealSecret
secrethash(obj) ==
  /\ nops < MaxHashOps
  /\ UNCHANGED smvars
  /\ LET m == hobjs[obj]
         r == secrethash_call(hashes_cache, m)
     IN /\ hashes_cache' = r.cache
        /\ hlast' = HashOp("secrethash", IF r.hit THEN "hit" ELSE "miss", r.value,
                           secrethash_key(m), IF r.hit THEN WriterOf(secrethash_key(m)) ELSE obj, m)
        /\ hwritten' = IF r.hit THEN hwritten ELSE Written(secrethash_key(m), obj)
        /\ hevicted' = hevicted \cup (Keys(hashes_cache) \ Keys(r.cache))
  /\ nops' = nops + 1
  /\ UNCHANGED <<msgs, signed_by, senders_cache, mlast, lock_bytes_cache, hobjs>>

\* l.lockhash
lockhash ==
  /\ nops < MaxHashOps
  /\ UNCHANGED smvars
  /\ LET l == hobjs.Lock
         r == lockhash_call(hashes_cache, lock_bytes_cache, l)
     IN /\ hashes_cache' = r.hashes_cache
        /\ lock_bytes_cache' = r.lock_bytes_cache
        /\ hlast' = HashOp("lockhash", IF r.hit THEN "hit" ELSE "miss", r.value, r.key,
                           IF r.hit THEN WriterOf(r.key) ELSE "Lock", l)
        /\ hwritten' = IF r.hit THEN hwritten ELSE Written(r.key, "Lock")
        /\ hevicted' = hevicted \cup (Keys(hashes_cache) \ Keys(r.hashes_cache))
  /\ nops' = nops + 1
  /\ UNCHANGED <<msgs, signed_by, senders_cache, mlast, hobjs>>

\* v.secret = secret
set_secret(obj, secret) ==
  /\ nops < MaxHashOps
  /\ UNCHANGED smvars
  /\ hobjs[obj].secret # secret
  /\ hobjs' = [hobjs EXCEPT ![obj].secret = secret]
  /\ hlast' = HashOp("set_secret", "ok", NoneObj, NoneObj, obj, hobjs[obj])
  /\ nops' = nops + 1
  /\ UNCHANGED <<msgs, signed_by, senders_cache, mlast, hashes_cache, lock_bytes_cache, hwritten, hevicted>>

\* l.amount = amount
set_amount(amount) ==
  /\ nops < MaxHashOps
  /\ UNCHANGED smvars
  /\ hobjs.Lock.amount # amount
  /\ hobjs' = [hobjs EXCEPT !.Lock.amount = amount]
  /\ hlast' = HashOp("set_amount", "ok", NoneObj, NoneObj, "Lock", hobjs.Lock)
  /\ nops' = nops + 1
  /\ UNCHANGED <<msgs, signed_by, senders_cache, mlast, hashes_cache, lock_bytes_cache, hwritten, hevicted>>

\* l.as_bytes
as_bytes ==
  /\ nops < MaxHashOps
  /\ UNCHANGED smvars
  /\ LET l == hobjs.Lock
         r == as_bytes_call(lock_bytes_cache, l)
     IN /\ lock_bytes_cache' = r.cache
        /\ hlast' = HashOp("as_bytes", IF r.hit THEN "hit" ELSE "miss", r.value,
                           as_bytes_key(l), "Lock", l)
  /\ nops' = nops + 1
  /\ UNCHANGED <<msgs, signed_by, senders_cache, mlast, hashes_cache, hobjs, hwritten, hevicted>>

\* RevealSecret(secret=OtherSecret(i)).secrethash: one read on another message
secrethash_of_other(i) ==
  /\ nops < MaxHashOps
  /\ UNCHANGED smvars
  /\ LET m == [NewMessage("RevealSecret", 1, EMPTY_SIGNATURE) EXCEPT !.secret = OtherSecret(i)]
         r == secrethash_call(hashes_cache, m)
     IN /\ hashes_cache' = r.cache
        /\ hlast' = HashOp("secrethash", IF r.hit THEN "hit" ELSE "miss", r.value,
                           secrethash_key(m),
                           IF r.hit THEN WriterOf(secrethash_key(m)) ELSE "RevealSecret", m)
        /\ hwritten' = IF r.hit THEN hwritten ELSE Written(secrethash_key(m), "RevealSecret")
        /\ hevicted' = hevicted \cup (Keys(hashes_cache) \ Keys(r.cache))
  /\ nops' = nops + 1
  /\ UNCHANGED <<msgs, signed_by, senders_cache, mlast, lock_bytes_cache, hobjs>>

\* l = Lock(amount, expiration, secrethash=hash); Lock.from_bytes(l.as_bytes):
\* the read of as_bytes goes through _lock_bytes_cache.
lock_from_bytes(amount, expiration, hash) ==
  /\ nops = 0
  /\ UNCHANGED <<smvars, hashes_cache, hobjs, hlast, hwritten, hevicted>>
  /\ LET l == Lock(1, amount, expiration, hash)
         r == as_bytes_call(lock_bytes_cache, l)
     IN /\ Lock_post_init(l)
        /\ lock_bytes_cache' = r.cache
        /\ mlast' = MsgOp("Lock.from_bytes", 1, "ok",
                          Lock_from_bytes(r.value, 2), r.value, l)
  /\ nops' = nops + 1
  /\ UNCHANGED <<msgs, signed_by, senders_cache>>

\* The number of reads a running process made before the reads of a run.
WarmReads == HASHES_CACHE_MAXSIZE - 1
\* The entry a secrethash read writes.
HashEntry(secret) == [key |-> secret, value |-> sha3(secret)]
\* _hashes_cache after secrethash was read on WarmReads other messages, the
\* i-th with the secret OtherSecret(i), and on the Unlock just before the
\* p-th of them (after all of them when p is WarmReads + 1, never when p is
\* 0): no more keys than the cache holds, so every entry is there, in the
\* order of the reads.
WarmCache(p) ==
  LET others == [i \in 1..WarmReads |-> HashEntry(OtherSecret(i))]
  IN IF p = 0 THEN others
     ELSE SubSeq(others, 1, p - 1) \o <<HashEntry(HashObjects0.Unlock.secret)>>
            \o SubSeq(others, p, WarmReads)
WarmPositions == {0, 1, (WarmReads + 1) \div 2 + 1, WarmReads + 1}

\* The caches of a process in which those reads have happened.
InitWarmHashes ==
  \E p \in WarmPositions :
    /\ hashes_cache = WarmCache(p)
    /\ lock_bytes_cache = <<>>
    /\ hobjs = HashObjects0
    /\ hlast = HashOp("none", "init", NoneObj, NoneObj, "none", Absent)
    /\ hwritten = {[key |-> OtherSecret(i), cls |-> "RevealSecret"] : i \in 1..WarmReads}
                    \cup (IF p = 0 THEN {}
                          ELSE {[key |-> HashObjects0.Unlock.secret, cls |-> "Unlock"]})
    /\ hevicted = {}

InitMsg ==
  /\ msgs = [i \in Slots |-> Absent]
  /\ senders_cache = <<>>
  /\ signed_by = [i \in Slots |-> 0]
  /\ mlast = MsgOp("none", 1, "init", NoneObj, NoneObj, Absent)
  /\ nops = 0

InitLast ==
  [mgr |-> Live, sc |-> "none", status |-> "init",
   pre_ref |-> None, pre_value |-> NoneValue,
   copy |-> None, ret_state |-> None, ret_events |-> <<>>,
   iter_kind |-> "none", iter_state |-> None, iter_events |-> <<>>]

\* StateManager(state_transition, S0) and a second manager built from a
\* snapshot copy of S0; object 1 is the module-level state object.
InitManagers(S0) ==
  /\ heap = [i \in 1..3 |-> IF i = SINGLETON THEN 0 ELSE S0]
  /\ current_state = [m \in Managers |-> IF m = Live THEN 2 ELSE 3]
  /\ last = InitLast
  /\ returned = {}
  /\ wal = <<>>
  /\ hist = [m \in Managers |-> <<>>]

\* The state machine: the managers dispatch, no message is built.
Init == (\E s0 \in 0..MaxInit : InitManagers(s0)) /\ InitMsg /\ InitHashes
Next ==
  \/ \E sc \in DispatchInputs : dispatch(sc)
  \/ replay
Spec == Init /\ [][Next]_vars

\* The message layer: messages are built, signed, looked up and encoded, no
\* state change is dispatched.
InitMessages == InitMsg /\ InitManagers(0) /\ InitHashes
NextMessages ==
  \/ \E i \in Slots, cls \in SignedClasses, x \in 0..FieldMax, sig \in KnownSignatures :
       construct(i, cls, x, sig)
  \/ \E i \in Slots, signer \in Signers : sign(i, signer)
  \/ \E i \in Slots : sender(i)
  \/ \E i \in Slots : roundtrip(i)
SpecMsg == InitMessages /\ [][NextMessages]_vars

\* Lookups of sender on new messages, one after the other: only the sender
\* cache lives across them.
InitCalls == InitMsg /\ InitManagers(0) /\ InitHashes
\* The signatures a lookup on a message of each class may meet.
SenderSignaturesOf == [cls \in SignedClasses |-> SenderSignatures(cls)]
NextSender ==
  \E cls \in SignedClasses, x \in 1..FieldMax :
    \E sig \in SenderSignaturesOf[cls] : sender_of(cls, x, sig)
SpecSender == InitCalls /\ [][NextSender]_vars

\* The single calls: a run is one call on freshly built arguments.
NextCalls ==
  \/ \E cls \in EnvelopeClasses, path \in BuildPaths, fld \in IntFields \cup BytesFields :
       \E val \in Probes(fld) : build(cls, path, fld, val)
  \/ \E t \in MappedEventTypes \cup OtherEventTypes, x \in 0..FieldMax : from_sendevent(t, x)
  \/ \E cls \in BalanceProofClasses,
          fld \in {"nonce", "transferred_amount", "locked_amount", "locksroot",
                   "message_hash", "signature", "sender"} :
       \E val \in BalanceProofProbes(fld) : build_balance_proof(cls, fld, val)
  \/ \E ncs \in MonitoringSignatures, sig \in MonitoringSignatures, signer \in {0} \cup Signers :
       pack_request_monitoring(ncs, sig, signer)
  \/ \E signer \in Signers, tamper \in Tampers, partner \in Signers, requester \in Signers :
       \E bpsig \in PartnerSignatures : verify(bpsig, signer, tamper, partner, requester)
  \/ \E cls \in CmdidClasses, x \in 1..FieldMax, first \in {CmdidOf(k) : k \in CmdidClasses} \cup UnknownCmdids :
       decode_bytes(cls, x, first)
  \/ decode_empty
  \/ \E data \in ShortData : decode_short(data)
  \/ \E t \in DictTypes, x \in 1..FieldMax : from_dict_call(t, x)
  \/ \E amount \in IntProbes, expiration \in IntProbes, h \in {13, 14} :
       lock_from_bytes(amount, expiration, B32(h))
  \/ \E x \in 1..FieldMax, uc \in {0, 3, UINT256_MAX}, oc \in {0, 3, 4}, signer \in {0} \cup Signers :
       update_pfs_unpack(x, uc, oc, signer)
SpecCalls == InitCalls /\ [][NextCalls]_vars

\* Reads of secrethash, as_bytes and lockhash on three objects whose fields
\* change in between, and reads of secrethash on other messages, in a
\* process that has read no hash yet or in one whose cache earlier reads
\* have filled.
OtherReads == {1, WarmReads + 1, WarmReads + 2}
InitHashReads == InitMsg /\ InitManagers(0) /\ (InitHashes \/ InitWarmHashes)
NextHashes ==
  \/ \E obj \in HashObjects : secrethash(obj)
  \/ lockhash
  \/ as_bytes
  \/ \E obj \in HashObjects, secret \in Secrets : set_secret(obj, secret)
  \/ \E amount \in LockAmounts : set_amount(amount)
  \/ \E i \in OtherReads : secrethash_of_other(i)
SpecHashes == InitHashReads /\ [][NextHashes]_vars

\* ------------------------------------------------ StateManager claims

\* The value state_transition computes from the value of the state it is
\* given, for the state changes whose dispatch completes.
TauValue(v, sc) ==
  CASE sc = "ActionIncInPlace" -> IF v = NoneValue THEN 0 ELSE v + 1
    [] sc = "ActionIncPure" -> v + 1
    [] sc = "ActionNoop" -> v
    [] sc = "ActionReset" -> 0
    [] OTHER -> NoneValue

\* C1 (as stated): for every transition function, also one that modifies the
\* state it is given in place, the first element dispatch returns equals in
\* value the manager's current_state as it was before the call.
C1_ReturnsPreviousValue ==
  last.status = "ok" => Val(heap, last.ret_state) = last.pre_value

\* C1 (amended): the first element dispatch returns is the deep copy that was
\* handed to the transition function, as the function left it; it equals in
\* value the pre-call current_state when the function does not modify the
\* state it is given.
C1_ReturnsCopyGivenToTau ==
  last.status = "ok" =>
    /\ last.ret_state = last.copy
    /\ last.sc \notin InPlaceChanges => Val(heap, last.ret_state) = last.pre_value

C1_Witness ==
  /\ last.status = "ok"
  /\ last.sc = "ActionIncPure"
  /\ Val(heap, last.ret_state) = last.pre_value
  /\ Val(heap, current_state[last.mgr]) # last.pre_value

\* C3: dispatching the logged state changes in order on a manager loaded from
\* a snapshot copy of the start state yields, at every step, the same events,
\* the same outcome and the same current_state value as the original run.
C3_ReplayEqualsOriginal ==
  \A i \in 1..Len(hist[Recovered]) :
    i <= Len(hist[Live]) /\ hist[Recovered][i] = hist[Live][i]

C3_Witness ==
  /\ Len(hist[Recovered]) >= 2
  /\ hist[Recovered][1].status = "ok"
  /\ hist[Recovered][2].status = "ok"
  /\ hist[Recovered][2].value # hist[Recovered][1].value
  /\ hist[Recovered][2].events # <<>>

\* C4: after a dispatch that completes, current_state is the new_state of the
\* TransitionResult the transition function returned for the copy of the
\* pre-call state, and the events returned are that result's events, in order.
C4_StateAndEventsAreTheResult ==
  last.status = "ok" =>
    /\ last.iter_kind = "TransitionResult"
    /\ current_state[last.mgr] = last.iter_state
    /\ Val(heap, current_state[last.mgr]) = TauValue(last.pre_value, last.sc)
    /\ last.ret_events = last.iter_events

C4_Witness ==
  /\ last.status = "ok"
  /\ last.sc = "ActionIncPure"
  /\ last.ret_events = <<"EventA", "EventB">>
  /\ current_state[last.mgr] # last.copy

\* C5: no dispatch changes the value of an object that existed before the
\* call: not the object held as current_state, not a state returned earlier.
C5_NoExistingObjectMutated ==
  [][\A id \in DOMAIN heap : heap'[id] = heap[id]]_vars

C5_Witness ==
  /\ last.status = "ok"
  /\ last.sc \in InPlaceChanges
  /\ last.pre_ref \in returned
  /\ Val(heap, last.pre_ref) = last.pre_value
  /\ Val(heap, last.ret_state) # last.pre_value

\* C6: a manager created with a non-None state never has current_state None,
\* also after a dispatch that fails because new_state was None.
C6_CurrentStateNeverNone ==
  \A m \in Managers : current_state[m] # None

\* ----------------------------------------------------- message claims

\* C2: whatever lookups came before, sender(v) of a message carrying a
\* signature is the address recovered from (data_to_sign(v), v.signature);
\* a message never gets the sender cached for another message that carries
\* the same signature bytes.
C2_SenderIsRecoveredFromOwnData ==
  (mlast.op = "sender" /\ IsRealSignature(mlast.pre.signature)) =>
    mlast.result = recover(data_to_sign(mlast.pre), mlast.pre.signature)

\* C7: after v.sign(s), reading v.sender yields the address of s, whatever
\* sender lookups on other messages happened before.
C7_SenderAfterSignIsSigner ==
  (mlast.op = "sender" /\ signed_by[mlast.slot] # 0) =>
    mlast.result = AddressOf(signed_by[mlast.slot])

\* C8 (as stated): for every signed message class, sign changes the signature
\* field and leaves every other field of the message unchanged.
C8_SignChangesOnlySignature ==
  mlast.op = "sign" =>
    /\ DOMAIN msgs[mlast.slot] = DOMAIN mlast.pre
    /\ \A f \in DOMAIN mlast.pre \ {"signature"} : msgs[mlast.slot][f] = mlast.pre[f]

\* The fields sign assigns: RequestMonitoring.sign also sets non_closing_signature.
FieldsSignWrites(cls) ==
  IF cls = "RequestMonitoring" THEN {"signature", "non_closing_signature"}
  ELSE {"signature"}

\* C8 (amended): sign of every signed message class other than
\* RequestMonitoring changes the signature field only; RequestMonitoring.sign
\* sets the signature and non_closing_signature, and leaves every other
\* field, the balance proof included, unchanged.
C8_SignChangesOnlySignatureFields ==
  mlast.op = "sign" =>
    /\ DOMAIN msgs[mlast.slot] = DOMAIN mlast.pre
    /\ \A f \in DOMAIN mlast.pre \ FieldsSignWrites(mlast.pre.cls) :
         msgs[mlast.slot][f] = mlast.pre[f]
    /\ msgs[mlast.slot].signature = SignerSign(signed_by[mlast.slot], mlast.data)
    /\ mlast.pre.cls = "RequestMonitoring" =>
         msgs[mlast.slot].non_closing_signature =
           SignerSign(signed_by[mlast.slot],
                      SignedBlindedBalanceProof_data_to_sign(mlast.pre.balance_proof))

C8_Witness ==
  /\ mlast.op = "sign"
  /\ mlast.pre.cls = "RequestMonitoring"
  /\ msgs[mlast.slot].non_closing_signature # mlast.pre.non_closing_signature
  /\ msgs[mlast.slot].balance_proof = mlast.pre.balance_proof
  /\ msgs[mlast.slot].signature # mlast.pre.signature

\* C9: for every class of the CMDID table and every value v that passes the
\* construction checks, signed or not, decode(encode(v)) is a message of the
\* class of v, it compares equal to v and has the fields of v.
C9_DecodeEncodeRoundTrip ==
  mlast.op = "roundtrip" =>
    /\ "cls" \in DOMAIN mlast.result
    /\ mlast.result.cls = mlast.pre.cls
    /\ MessageEq(mlast.pre, mlast.result)
    /\ mlast.result = mlast.pre

C9_Witness ==
  /\ mlast.op = "roundtrip"
  /\ mlast.pre.cls = "RefundTransfer"
  /\ IsRealSignature(mlast.pre.signature)
  /\ "cls" \in DOMAIN mlast.result
  /\ MessageEq(mlast.pre, mlast.result)

\* C10: the bytes an envelope message hands to the signer in sign, and to
\* recover in sender, are pack_balance_proof of its nonce, of
\* hash_balance_data(transferred_amount, locked_amount, locksroot), of its
\* message_hash and of (chain_id, token_network_address, channel_identifier),
\* not the wire bytes without the signature.
C10_EnvelopeSignsBalanceProof ==
  (/\ mlast.op \in {"sign", "sender"}
   /\ mlast.pre.cls \in EnvelopeClasses
   /\ mlast.data # NoneObj) =>
    /\ mlast.data =
         pack_balance_proof(
           mlast.pre.nonce,
           hash_balance_data(mlast.pre.transferred_amount, mlast.pre.locked_amount,
                             mlast.pre.locksroot),
           message_hash(mlast.pre),
           CanonicalIdentifier(mlast.pre.chain_id, mlast.pre.token_network_address,
                               mlast.pre.channel_identifier))
    /\ mlast.data # WithoutSignature(mlast.pre)
    /\ mlast.op = "sign" =>
         msgs[mlast.slot].signature = SignerSign(signed_by[mlast.slot], mlast.data)

C10_Witness ==
  /\ mlast.op = "sender"
  /\ mlast.status = "miss"
  /\ mlast.pre.cls = "LockedTransfer"
  /\ IsRealSignature(mlast.pre.signature)
  /\ mlast.data = mlast.pre.signature.signed
  /\ mlast.result = AddressOf(mlast.pre.signature.signer)

\* C11: the message_hash of an envelope message is the digest of the packed
\* bytes without the trailing signature: two messages that differ only in
\* their signature have the same message_hash, and sign does not change it.
C11_MessageHashIgnoresSignature ==
  /\ \A i \in Slots, j \in Slots :
       (/\ Exists(i) /\ Exists(j)
        /\ msgs[i].cls \in EnvelopeClasses
        /\ [msgs[i] EXCEPT !.signature = EMPTY_SIGNATURE] =
             [msgs[j] EXCEPT !.signature = EMPTY_SIGNATURE]) =>
         message_hash(msgs[i]) = message_hash(msgs[j])
  /\ \A i \in Slots :
       (Exists(i) /\ msgs[i].cls \in EnvelopeClasses) =>
         message_hash(msgs[i]) =
           sha3([f \in DOMAIN packed(msgs[i]) \ {"signature"} |-> packed(msgs[i])[f]])
  /\ (mlast.op = "sign" /\ mlast.pre.cls \in EnvelopeClasses) =>
       message_hash(msgs[mlast.slot]) = message_hash(mlast.pre)

C11_Witness ==
  /\ mlast.op = "sign"
  /\ mlast.pre.cls = "Unlock"
  /\ Exists(1) /\ Exists(2)
  /\ msgs[1].signature # msgs[2].signature
  /\ [msgs[1] EXCEPT !.signature = EMPTY_SIGNATURE] =
       [msgs[2] EXCEPT !.signature = EMPTY_SIGNATURE]
  /\ msgs[mlast.slot].signature # mlast.pre.signature
  /\ message_hash(msgs[1]) = message_hash(msgs[2])

\* C12: reading sender on a message whose signature is EMPTY_SIGNATURE, None
\* or a signature for which recovery fails returns None; InvalidSignature is
\* never raised to the caller.
C12_SenderOfUnsignedIsNone ==
  mlast.op = "sender" =>
    /\ mlast.result # InvalidSignature
    /\ (\/ mlast.pre.signature = EMPTY_SIGNATURE
        \/ mlast.pre.signature = NoneObj
        \/ recover(data_to_sign(mlast.pre), mlast.pre.signature) = InvalidSignature) =>
         mlast.result = NoneObj

C12_Witness ==
  /\ mlast.op = "sender"
  /\ mlast.pre.signature = NotASignature
  /\ mlast.status = "miss"
  /\ mlast.result = NoneObj
  /\ \E i \in 1..Len(senders_cache) :
       senders_cache[i].key = EMPTY_SIGNATURE /\ senders_cache[i].value = NoneObj

\* C13: building an envelope message, by the constructor, by decode or by
\* message_from_sendevent, raises ValueError and yields no message when nonce
\* is outside [1, UINT64_MAX], when channel_identifier, transferred_amount or
\* locked_amount is outside [0, UINT256_MAX], or when locksroot is not 32
\* bytes long.
C13_EnvelopeValuesChecked ==
  (/\ mlast.op = "build"
   /\ mlast.pre.cls \in EnvelopeClasses
   /\ \/ mlast.pre.nonce \notin 1..UINT64_MAX
      \/ mlast.pre.channel_identifier \notin 0..UINT256_MAX
      \/ mlast.pre.transferred_amount \notin 0..UINT256_MAX
      \/ mlast.pre.locked_amount \notin 0..UINT256_MAX
      \/ mlast.pre.locksroot.len # 32) =>
    mlast.result = ValueError

C13_Witness ==
  /\ mlast.op = "build"
  /\ mlast.status = "from_event"
  /\ mlast.pre.cls = "LockExpired"
  /\ mlast.pre.locked_amount = UINT256_MAX + 1
  /\ mlast.result = ValueError

\* C14: building a LockedTransfer or a RefundTransfer raises ValueError, and
\* no message exists whose bytes could be produced, when payment_identifier
\* is outside [0, UINT64_MAX] or when token, recipient, target or initiator is
\* not 20 bytes long.
C14_TransferValuesChecked ==
  (/\ mlast.op = "build"
   /\ mlast.pre.cls \in {"LockedTransfer", "RefundTransfer"}
   /\ \/ mlast.pre.payment_identifier \notin 0..UINT64_MAX
      \/ mlast.pre.token.len # 20
      \/ mlast.pre.recipient.len # 20
      \/ mlast.pre.target.len # 20
      \/ mlast.pre.initiator.len # 20) =>
    mlast.result = ValueError

C14_Witness ==
  /\ mlast.op = "build"
  /\ mlast.status = "constructor"
  /\ mlast.pre.cls = "RefundTransfer"
  /\ mlast.pre.target.len = 19
  /\ mlast.result = ValueError

\* C18: message_from_sendevent maps SendLockedTransfer to LockedTransfer,
\* SendSecretReveal to RevealSecret, SendBalanceProof to Unlock,
\* SendSecretRequest to SecretRequest, SendRefundTransfer to RefundTransfer,
\* SendLockExpired to LockExpired and SendProcessed to Processed; the message
\* has signature EMPTY_SIGNATURE and the event's message_identifier, and a
\* LockedTransfer or RefundTransfer has fee 0.
C18_SendEventMapsToMessage ==
  (mlast.op = "message_from_sendevent" /\ mlast.status \in MappedEventTypes) =>
    /\ mlast.result # ValueError
    /\ mlast.result.cls =
         (CASE mlast.status = "SendLockedTransfer" -> "LockedTransfer"
            [] mlast.status = "SendSecretReveal" -> "RevealSecret"
            [] mlast.status = "SendBalanceProof" -> "Unlock"
            [] mlast.status = "SendSecretRequest" -> "SecretRequest"
            [] mlast.status = "SendRefundTransfer" -> "RefundTransfer"
            [] mlast.status = "SendLockExpired" -> "LockExpired"
            [] mlast.status = "SendProcessed" -> "Processed")
    /\ mlast.result.signature = EMPTY_SIGNATURE
    /\ mlast.result.message_identifier = mlast.data.message_identifier
    /\ mlast.result.cls \in {"LockedTransfer", "RefundTransfer"} => mlast.result.fee = 0

C18_Witness ==
  /\ mlast.op = "message_from_sendevent"
  /\ mlast.status = "SendRefundTransfer"
  /\ mlast.data.message_identifier = 2
  /\ mlast.result.cls = "RefundTransfer"
  /\ mlast.result.fee = 0
  /\ mlast.result.lock = mlast.data.transfer.lock

\* C19: message_from_sendevent raises ValueError and returns no message for
\* an event whose exact type is not one of the seven mapped types, a type
\* derived from a mapped one included.
C19_UnknownSendEventRaises ==
  (mlast.op = "message_from_sendevent" /\ mlast.status \notin MappedEventTypes) =>
    mlast.result = ValueError

C19_Witness ==
  /\ mlast.op = "message_from_sendevent"
  /\ mlast.status = "SubclassOfSendProcessed"
  /\ mlast.result = ValueError

\* C15: a BalanceProofUnsignedState or BalanceProofSignedState whose
\* construction succeeds has nonce in [1, UINT64_MAX], transferred_amount and
\* locked_amount in [0, UINT256_MAX] and a 32-byte locksroot, and the signed
\* state a 65-byte signature and a 20-byte sender; an input that violates one
\* of these raises ValueError.
C15_BalanceProofInvariants ==
  LET Valid(bp) ==
        /\ bp.nonce \in 1..UINT64_MAX
        /\ bp.transferred_amount \in 0..UINT256_MAX
        /\ bp.locked_amount \in 0..UINT256_MAX
        /\ bp.locksroot.len = 32
        /\ bp.cls = "BalanceProofSignedState" =>
             bp.signature.len = 65 /\ bp.sender.len = 20
  IN mlast.op = "build_balance_proof" =>
       /\ mlast.result # ValueError => Valid(mlast.result)
       /\ ~Valid(mlast.pre) => mlast.result = ValueError

\* C16: pack of a RequestMonitoring raises ValueError whenever
\* non_closing_signature or reward_proof_signature is None or is still the
\* EMPTY_SIGNATURE the message was constructed with; after one sign(signer)
\* call both are set and pack succeeds.
C16_PackNeedsBothSignatures ==
  mlast.op = "pack" =>
    /\ (\/ mlast.pre.non_closing_signature \in {NoneObj, EMPTY_SIGNATURE}
        \/ mlast.pre.signature \in {NoneObj, EMPTY_SIGNATURE}) =>
         mlast.result = ValueError
    /\ mlast.status = "signed" =>
         /\ mlast.result # ValueError
         /\ IsRealSignature(mlast.pre.non_closing_signature)
         /\ IsRealSignature(mlast.pre.signature)


\* C17: for a RequestMonitoring on which sign was called,
\* verify_request_monitoring(partner_address, requesting_address) returns True
\* if and only if the balance proof's signature recovers to partner_address
\* over pack_balance_proof, non_closing_signature recovers to
\* requesting_address over pack_balance_proof_update, and
\* reward_proof_signature recovers to requesting_address over
\* pack_reward_proof.
C17_VerifyIffThreeSignaturesRecover ==
  mlast.op = "verify_request_monitoring" =>
    LET v == mlast.pre
        bp == v.balance_proof
        cid == CanonicalIdentifier(bp.chain_id, bp.token_network_address, bp.channel_identifier)
    IN (mlast.result = [returns |-> TRUE]) <=>
         /\ recover(pack_balance_proof(bp.nonce, bp.balance_hash, bp.additional_hash, cid),
                    bp.signature) = mlast.data.partner_address
         /\ recover(pack_balance_proof_update(bp.nonce, bp.balance_hash, bp.additional_hash,
                                              cid, bp.signature),
                    v.non_closing_signature) = mlast.data.requesting_address
         /\ recover(pack_reward_proof(cid, v.reward_amount, bp.nonce),
                    v.signature) = mlast.data.requesting_address

\* A signed request verifies for the partner and the requester, and a request
\* whose reward amount changed after signing does not.
C17_Witness ==
  /\ mlast.op = "verify_request_monitoring"
  /\ mlast.status = "none"
  /\ mlast.result = [returns |-> TRUE]
  /\ mlast.data.partner_address = AddressOf(1)
  /\ mlast.data.requesting_address = AddressOf(mlast.data.signer)


\* C20: decode(data) raises InvalidProtocolMessage when the first byte of
\* data is no CMDID of the dispatch table, and from_dict(data) raises
\* InvalidProtocolMessage when data has no "type" key or a "type" that names
\* no known message class; in neither case is a message returned.
C20_UnknownMessageTypeRaises ==
  /\ (/\ mlast.op = "decode"
      /\ \/ /\ "cmdid" \in DOMAIN mlast.data
            /\ mlast.data.cmdid \notin {CmdidOf(k) : k \in CmdidClasses}
         \/ /\ "cmdid" \notin DOMAIN mlast.data
            /\ mlast.data.len > 0
            /\ (mlast.data.val \div (256 ^ (mlast.data.len - 1)))
                 \notin {CmdidByte[CmdidOf(k)] : k \in CmdidClasses})
       => mlast.result = InvalidProtocolMessage
  /\ (mlast.op = "from_dict"
      /\ ("type" \notin DOMAIN mlast.data \/ mlast.data.type \notin CmdidClasses \cup {"Secret"}))
       => mlast.result = InvalidProtocolMessage

\* Wire bytes of a valid Processed message whose first byte is unassigned
\* are decoded.
C20_Witness ==
  /\ mlast.op = "decode"
  /\ mlast.pre.cls = "Processed"
  /\ mlast.data.cmdid \in UnknownCmdids
  /\ mlast.result = InvalidProtocolMessage


\* C21: from_dict accepts a dictionary tagged "type": "Secret" and produces
\* the same Unlock message as the same dictionary tagged "type": "Unlock".
C21_SecretIsAliasOfUnlock ==
  (mlast.op = "from_dict" /\ mlast.status = "Secret") =>
    /\ mlast.result # InvalidProtocolMessage
    /\ mlast.result = from_dict([mlast.data EXCEPT !.type = "Unlock"])


\* C22: Lock.from_bytes(l.as_bytes) == l for every valid Lock l: the lock
\* rebuilt from the 96 canonical bytes has the same amount, expiration and
\* secrethash and compares equal to l.
C22_LockFromBytesEqualsLock ==
  mlast.op = "Lock.from_bytes" =>
    /\ mlast.data.len = 96
    /\ mlast.result.amount = mlast.pre.amount
    /\ mlast.result.expiration = mlast.pre.expiration
    /\ mlast.result.secrethash = mlast.pre.secrethash
    /\ Lock_eq(mlast.result, mlast.pre)


\* C23: for every UpdatePFS value v, UpdatePFS.unpack(v.packed()) returns a
\* message whose every field (canonical_identifier, updating_participant,
\* other_participant, updating_nonce, other_nonce, updating_capacity,
\* other_capacity, reveal_timeout, mediation_fee, signature) equals the
\* corresponding field of v, also when updating_capacity differs from
\* other_capacity.
C23_UpdatePFSRoundTrip ==
  mlast.op = "UpdatePFS.unpack" =>
    \A f \in {"canonical_identifier", "updating_participant", "other_participant",
              "updating_nonce", "other_nonce", "updating_capacity", "other_capacity",
              "reveal_timeout", "mediation_fee", "signature"} :
      mlast.result[f] = mlast.pre[f]


\* C24: constructing a LockedTransfer or RefundTransfer with a fee outside
\* the unsigned 256-bit range [0, 2^256-1], negative as well as too large,
\* raises ValueError.
C24_FeeRangeChecked ==
  (/\ mlast.op = "build"
   /\ mlast.status = "constructor"
   /\ mlast.pre.cls \in {"LockedTransfer", "RefundTransfer"}
   /\ mlast.pre.fee \notin 0..UINT256_MAX) =>
    mlast.result = ValueError


\* C25: verify_request_monitoring returns False, and does not raise, when any
\* of the three signatures is corrupted so that recovery fails or yields
\* another address, and when non_closing_signature is missing.
C25_CorruptedSignatureGivesFalse ==
  mlast.op = "verify_request_monitoring" =>
    LET v == mlast.pre
        bp == v.balance_proof
        cid == CanonicalIdentifier(bp.chain_id, bp.token_network_address, bp.channel_identifier)
    IN (\/ v.non_closing_signature = NoneObj
        \/ recover(pack_balance_proof(bp.nonce, bp.balance_hash, bp.additional_hash, cid),
                   bp.signature) # mlast.data.partner_address
        \/ recover(pack_balance_proof_update(bp.nonce, bp.balance_hash, bp.additional_hash,
                                             cid, bp.signature),
                   v.non_closing_signature) # mlast.data.requesting_address
        \/ recover(pack_reward_proof(cid, v.reward_amount, bp.nonce),
                   v.signature) # mlast.data.requesting_address)
       => mlast.result = [returns |-> FALSE]


\* C26: when the transition function returns a TransitionResult with
\* new_state None (and proper events) for a sub-task that is run through a
\* StateManager, the dispatch completes normally, returning the state and the
\* events, so that the parent can then remove the sub-task.
C26_TerminalChildCompletes ==
  (/\ last.iter_kind = "TransitionResult"
   /\ last.iter_state = None
   /\ \A i \in 1..Len(last.iter_events) : IsEvent(last.iter_events[i])) =>
    /\ last.status = "ok"
    /\ last.ret_events = last.iter_events


\* C27: whenever dispatch raises (state_change is not a StateChange, the
\* transition function raises, it returns something that is not a
\* TransitionResult, new_state is not a State, or events contains something
\* that is not an Event), the manager's current_state is the same as before
\* the call.
C27_FailedDispatchKeepsState ==
  last.status \notin {"init", "ok"} =>
    /\ current_state[last.mgr] = last.pre_ref
    /\ Val(heap, current_state[last.mgr]) = last.pre_value


\* C28: the state returned by dispatch is never the same object as the
\* manager's current_state after the call, so a caller that modifies the
\* returned value cannot change the manager's state, also when the
\* transition function returns the state object it was given as new_state.
C28_ReturnedStateIsNotCurrentState ==
  last.status = "ok" => last.ret_state # current_state[last.mgr]


\* C28 (amended): the state returned by dispatch is the deep copy that was
\* handed to the transition function.  It is never the object that was the
\* manager's current_state before the call; it is the same object as the
\* manager's current_state after the call exactly when the transition
\* function returns the object it was given as new_state.
C28_ReturnedStateIsCurrentStateIffTauReturnsItsArgument ==
  last.status = "ok" =>
    /\ last.ret_state = last.copy
    /\ last.pre_ref # None => last.ret_state # last.pre_ref
    /\ (last.ret_state = current_state[last.mgr]) <=> (last.iter_state = last.copy)

\* A transition that returns its argument untouched: the caller holds the
\* manager's new current_state, and not the previous one.
C28_Witness ==
  /\ last.status = "ok"
  /\ last.sc = "ActionNoop"
  /\ last.ret_state = current_state[last.mgr]
  /\ last.ret_state # last.pre_ref


\* C29: after any sequence of secrethash reads on Unlock and RevealSecret
\* messages and lockhash reads on Locks, which share one 128-entry hash
\* cache, every read returns keccak256 of the object's current secret, or of
\* the lock's current canonical bytes; an entry written for another class,
\* before a field change or before an eviction never yields a wrong value.
C29_HashReadsAreCurrent ==
  /\ hlast.op = "secrethash" => hlast.result = sha3(hlast.pre.secret)
  /\ hlast.op = "lockhash" => hlast.result = sha3(Lock_as_bytes(hlast.pre))
  /\ hlast.op = "as_bytes" => hlast.result = Lock_as_bytes(hlast.pre)

\* The Unlock's secrethash is answered from an entry that a RevealSecret
\* wrote after the key had been dropped from the cache once.
C29_Witness ==
  /\ hlast.op = "secrethash"
  /\ hlast.status = "hit"
  /\ hlast.pre.cls = "Unlock"
  /\ hlast.writer = "RevealSecret"
  /\ hlast.key \in hevicted


\* C30: decode(data) on every byte string, the empty one included, either
\* returns a message or raises InvalidProtocolMessage; no other kind of error
\* escapes from the CMDID lookup.
C30_DecodeReturnsOrRaisesInvalidProtocolMessage ==
  mlast.op = "decode" =>
    \/ mlast.result = InvalidProtocolMessage
    \/ /\ "cls" \in DOMAIN mlast.result
       /\ mlast.result.cls = CMDID_TO_CLASS[mlast.data.cmdid]

====
